---- MODULE Spec2Model ----
(***************************************************************************)
(* A model of the vista-pegasus-wrapper graph builder:                     *)
(*   - Locator                  (pegasus_wrapper/locator.py)               *)
(*   - SlurmResourceRequest     (pegasus_wrapper/resource_request.py)      *)
(*   - WorkflowBuilder          (pegasus_wrapper/workflow.py)              *)
(*   - _canonicalize_depends_on (pegasus_wrapper/artifact.py)              *)
(*                                                                         *)
(* Python strings that the code takes apart (split, substring, "in") are   *)
(* sequences of one-character strings; Optional[T] is a set with at most   *)
(* one element ({} is None).                                               *)
(***************************************************************************)
EXTENDS Integers, Sequences, FiniteSets, TLC

VARIABLES
    \* ---- Locator (locator.py) ----
    loc,        \* the _parts of the Locator the caller currently holds
    locRet,     \* outcome of the last Locator operation
    \* ---- SlurmResourceRequest (resource_request.py) ----
    rrBase,     \* keyword arguments of the request unify is called on
    rrOver,     \* keyword arguments of the request passed to unify
    rrRet,      \* outcome of the last request operation
    \* ---- WorkflowBuilder (workflow.py) ----
    wb,         \* the fields of the WorkflowBuilder object
    fs,         \* the files under the workflow directory
    ret,        \* the last builder call: its arguments and its outcome
    \* ---- _canonicalize_depends_on (artifact.py) ----
    dep,        \* the depends_on value a caller passes
    depRet,     \* outcome of the last canonicalization
    \* ---- _ComposedKeyValueTransform (key_value.py) ----
    kvRet       \* the last composed transform: its arguments and outcome

locVars == <<loc, locRet>>
rrVars == <<rrBase, rrOver, rrRet>>
wbVars == <<wb, fs, ret>>
depVars == <<dep, depRet>>
kvVars == <<kvRet>>
vars == <<loc, locRet, rrBase, rrOver, rrRet, wb, fs, ret, dep, depRet, kvRet>>

\* Optional[T]: None is {}, a value v is {v}.
None == {}
Some(v) == {v}
IsNone(o) == o = {}
Get(o) == CHOOSE v \in o : TRUE

(***************************************************************************)
(* Strings                                                                 *)
(***************************************************************************)
MaxStrLen == 2
MaxParts == 2

Chars == {"a", "=", "/"}

\* All strings over Chars of length at most n.
StringsUpTo(n) == UNION {[1..k -> Chars] : k \in 0..n}

\* All sequences over S of length at most n.
SeqsUpTo(S, n) == UNION {[1..k -> S] : k \in 0..n}

\* c in s, for a one-character c.
HasChar(s, c) == \E i \in 1..Len(s) : s[i] = c

\* str.split(sep) for a one-character separator: always at least one piece.
RECURSIVE Split(_, _)
Split(s, sep) ==
    IF \A i \in 1..Len(s) : s[i] # sep
    THEN <<s>>
    ELSE LET i == CHOOSE j \in 1..Len(s) :
                      s[j] = sep /\ \A k \in 1..(j - 1) : s[k] # sep
         IN <<SubSeq(s, 1, i - 1)>> \o Split(SubSeq(s, i + 1, Len(s)), sep)

\* sep.join(parts)
RECURSIVE Join(_, _)
Join(parts, sep) ==
    IF Len(parts) = 0 THEN <<>>
    ELSE IF Len(parts) = 1 THEN parts[1]
    ELSE parts[1] \o <<sep>> \o Join(Tail(parts), sep)

(***************************************************************************)
(* Locator                                                                 *)
(***************************************************************************)
\* A Python value handed to Locator(...) or to the / operator.  The field
\* that does not belong to the value's type is empty.
StrVal(s) == [type |-> "str", str |-> s, parts |-> <<>>]
SeqVal(q) == [type |-> "seq", str |-> <<>>, parts |-> q]
LocVal(p) == [type |-> "Locator", str |-> <<>>, parts |-> p]
IntVal == [type |-> "int", str |-> <<>>, parts |-> <<>>]

\* _parse_parts: a string is split at "/", any other iterable becomes a tuple.
_parse_parts(x) ==
    IF x.type = "str" THEN Split(x.str, "/") ELSE x.parts

\* A validator that looks at the first part only.
_validate_parts_raises_first(parts) ==
    Len(parts) > 0 /\ HasChar(parts[1], "=")

\* Locator._validate_parts: TRUE iff the validator raises ValueError.
_validate_parts_raises(parts) ==
    \E i \in 1..Len(parts) : HasChar(parts[i], "=")

\* Locator(x): converter, then validator.
NewLocator(x) ==
    LET parts == _parse_parts(x)
    IN IF _validate_parts_raises(parts)
       THEN [status |-> "ValueError", parts |-> <<>>]
       ELSE [status |-> "ok", parts |-> parts]

\* Locator.__truediv__(self, other); self is the _parts of the receiver.
__truediv__(self, other) ==
    IF other.type = "Locator"
    THEN NewLocator(SeqVal(self \o other.parts))
    ELSE IF other.type = "str"
    THEN NewLocator(SeqVal(Append(self, other.str)))
    ELSE [status |-> "RuntimeError", parts |-> <<>>]

\* Locator.__repr__
LocatorRepr(parts) == Join(parts, "/")

\* What a caller passes to Locator(...): a string, or a sequence of at most
\* one string.
StringInputs == StringsUpTo(MaxStrLen)
LocatorInputs ==
    {StrVal(s) : s \in StringInputs}
        \cup {SeqVal(q) : q \in SeqsUpTo(StringInputs, 1)}

\* s contains "=" / some element of the sequence q does
ArgHasEq(x) ==
    IF x.type = "str" THEN HasChar(x.str, "=")
    ELSE \E i \in 1..Len(x.parts) : HasChar(x.parts[i], "=")

NoLocRet == [op |-> "none", argtype |-> "none", argEq |-> FALSE,
             status |-> "ok"]

\* loc = Locator(x)
LocatorConstruct(x) ==
    LET r == NewLocator(x)
    IN /\ Len(r.parts) <= MaxParts
       /\ locRet' = [op |-> "new", argtype |-> x.type, argEq |-> ArgHasEq(x),
                     status |-> r.status]
       /\ loc' = IF r.status = "ok" THEN r.parts ELSE loc
       /\ UNCHANGED <<rrVars, wbVars, depVars, kvVars>>

\* loc = loc / s   for a string s
LocatorDivStr(s) ==
    LET r == __truediv__(loc, StrVal(s))
    IN /\ Len(loc) < MaxParts
       /\ locRet' = [op |-> "div", argtype |-> "str",
                     argEq |-> ArgHasEq(StrVal(s)), status |-> r.status]
       /\ loc' = IF r.status = "ok" THEN r.parts ELSE loc
       /\ UNCHANGED <<rrVars, wbVars, depVars, kvVars>>

\* loc = loc / Locator(x)   for a Locator(x) that could be constructed
LocatorDivLocator(x) ==
    LET m == NewLocator(x)
        r == __truediv__(loc, LocVal(m.parts))
    IN /\ m.status = "ok"
       /\ Len(loc) + Len(m.parts) <= MaxParts
       /\ locRet' = [op |-> "div", argtype |-> "Locator",
                     argEq |-> ArgHasEq(x), status |-> r.status]
       /\ loc' = IF r.status = "ok" THEN r.parts ELSE loc
       /\ UNCHANGED <<rrVars, wbVars, depVars, kvVars>>

\* loc / 90
LocatorDivOther ==
    LET r == __truediv__(loc, IntVal)
    IN /\ locRet' = [op |-> "div", argtype |-> "int", argEq |-> FALSE,
                     status |-> r.status]
       /\ loc' = loc
       /\ UNCHANGED <<rrVars, wbVars, depVars, kvVars>>

(***************************************************************************)
(* SlurmResourceRequest                                                    *)
(***************************************************************************)
SCAVENGE == "scavenge"
EPHEMERAL == "ephemeral"
_SLURM_DEFAULT_MEMORY == "2G"
_PROJECT_PARTITION_JOB_TIME_IN_MINUTES == 1440
SCAVENGE_MAX_WALLTIME == 120
EPHEMERAL_MAX_WALLTIME == 720

\* Partition.from_str
PartitionFromStr(name) ==
    [name |-> name,
     max_walltime |->
        IF name = EPHEMERAL THEN EPHEMERAL_MAX_WALLTIME
        ELSE IF name = SCAVENGE THEN SCAVENGE_MAX_WALLTIME
        ELSE _PROJECT_PARTITION_JOB_TIME_IN_MINUTES]

\* Keyword arguments of SlurmResourceRequest(...); a keyword left out is None.
RRArgs(p, m, c, g, t, e, s) ==
    [partition |-> p, memory |-> m, num_cpus |-> c, num_gpus |-> g,
     job_time_in_minutes |-> t, exclude_list |-> e, run_on_single_node |-> s]

NoArgs == RRArgs(None, None, None, None, None, None, None)

\* Python truthiness of an Optional[int] / Optional[str] / Optional[object].
TruthyInt(o) == ~IsNone(o) /\ Get(o) # 0
TruthySeq(o) == ~IsNone(o) /\ Len(Get(o)) > 0
TruthyObj(o) == ~IsNone(o)

\* x or y
OrInt(x, y) == IF TruthyInt(x) THEN x ELSE y
OrSeq(x, y) == IF TruthySeq(x) THEN x ELSE y
OrObj(x, y) == IF TruthyObj(x) THEN x ELSE y

\* SlurmResourceRequest.__attrs_post_init__: the job time of a request that
\* was given none.
DefaultJobTime(partition) ==
    IF IsNone(partition)
    THEN _PROJECT_PARTITION_JOB_TIME_IN_MINUTES
    ELSE Get(partition).max_walltime

\* SlurmResourceRequest(**args): the partition converter and
\* __attrs_post_init__.
NewSlurmResourceRequest(args) ==
    LET partition ==
            IF TruthyObj(args.partition)
            THEN Some(PartitionFromStr(Get(args.partition)))
            ELSE None
    IN [partition |-> partition,
        memory |-> args.memory,
        num_cpus |-> args.num_cpus,
        num_gpus |-> args.num_gpus,
        job_time_in_minutes |->
            IF ~TruthyInt(args.job_time_in_minutes)
            THEN Some(DefaultJobTime(partition))
            ELSE args.job_time_in_minutes,
        exclude_list |-> args.exclude_list,
        run_on_single_node |-> args.run_on_single_node]

NoRequest == NewSlurmResourceRequest(NoArgs)

\* other.num_gpus if other.num_gpus is not None else self.num_gpus
UnifyNumGpus(self, other) ==
    IF ~IsNone(other.num_gpus) THEN other.num_gpus ELSE self.num_gpus

\* other.job_time_in_minutes or self.job_time_in_minutes
UnifyJobTime(self, other) ==
    OrInt(other.job_time_in_minutes, self.job_time_in_minutes)

\* SlurmResourceRequest.unify(self, other), both constructed requests.
\* partition.name of a None partition raises AttributeError.
unify(self, other) ==
    LET partition == OrObj(other.partition, self.partition)
    IN IF IsNone(partition)
       THEN [status |-> "AttributeError", req |-> NoRequest]
       ELSE [status |-> "ok",
             req |-> NewSlurmResourceRequest(
                RRArgs(Some(Get(partition).name),
                       OrObj(other.memory, self.memory),
                       OrInt(other.num_cpus, self.num_cpus),
                       UnifyNumGpus(self, other),
                       UnifyJobTime(self, other),
                       OrSeq(other.exclude_list, self.exclude_list),
                       OrSeq(other.run_on_single_node,
                             self.run_on_single_node)))]

\* SlurmResourceRequest.convert_time_to_slurm_format: the text
\* "<hours>:<minutes field>:00" as <<hours, digits of the minutes field>>.
convert_time_to_slurm_format(job_time_in_minutes) ==
    LET hours == job_time_in_minutes \div 60
        mins == job_time_in_minutes % 60
    IN <<hours,
         IF mins < 10 THEN <<mins, 0>> ELSE <<mins \div 10, mins % 10>>>>

\* needle in haystack, for two strings
IsSubstring(needle, haystack) ==
    \E i \in 0..(Len(haystack) - Len(needle)) :
        SubSeq(haystack, i + 1, i + Len(needle)) = needle

\* A walltime test that also rejects the maximum itself.
WalltimeExceeded_inclusive(req) ==
    Get(req.partition).max_walltime <= Get(req.job_time_in_minutes)

\* The walltime test of apply_to_job.
WalltimeExceeded(req) ==
    Get(req.partition).max_walltime < Get(req.job_time_in_minutes)

\* The node-constraint test of apply_to_job.
NodesInconsistent(req) ==
    /\ TruthySeq(req.exclude_list)
    /\ TruthySeq(req.run_on_single_node)
    /\ IsSubstring(Get(req.run_on_single_node), Get(req.exclude_list))

\* A job's profiles as far as apply_to_job and the builder set them.
NoProfiles == [glite |-> None, category |-> None]

\* The text of the glite.arguments profile, field by field.
SlurmResourceContent(req) ==
    [qos_or_account |->
        IF Get(req.partition).name \in {SCAVENGE, EPHEMERAL}
        THEN "qos" ELSE "account",
     partition |-> Get(req.partition).name,
     num_cpus |-> IF TruthyInt(req.num_cpus) THEN Get(req.num_cpus) ELSE 1,
     num_gpus |-> IF ~IsNone(req.num_gpus) THEN Get(req.num_gpus) ELSE 0,
     mem |-> IF TruthyObj(req.memory) THEN Get(req.memory)
             ELSE _SLURM_DEFAULT_MEMORY,
     time |-> convert_time_to_slurm_format(Get(req.job_time_in_minutes)),
     exclude |-> IF TruthySeq(req.exclude_list) THEN req.exclude_list ELSE None,
     nodelist |-> IF TruthySeq(req.run_on_single_node)
                  THEN req.run_on_single_node ELSE None]

\* An apply_to_job that tests the node options before the walltime.
apply_to_job_nodes_first(req, profiles) ==
    IF ~TruthyObj(req.partition)
    THEN [status |-> "MissingPartition", profiles |-> profiles]
    ELSE IF NodesInconsistent(req)
    THEN [status |-> "InconsistentNodes", profiles |-> profiles]
    ELSE IF WalltimeExceeded(req)
    THEN [status |-> "WalltimeExceeded", profiles |-> profiles]
    ELSE [status |-> "ok",
          profiles |->
            [glite |-> Some(SlurmResourceContent(req)),
             category |-> IF IsNone(profiles.category)
                          THEN Some(Get(req.partition).name)
                          ELSE profiles.category]]

\* SlurmResourceRequest.apply_to_job(self, job): the error raised, or the
\* job's profiles afterwards.
apply_to_job(req, profiles) ==
    IF ~TruthyObj(req.partition)
    THEN [status |-> "MissingPartition", profiles |-> profiles]
    ELSE IF WalltimeExceeded(req)
    THEN [status |-> "WalltimeExceeded", profiles |-> profiles]
    ELSE IF NodesInconsistent(req)
    THEN [status |-> "InconsistentNodes", profiles |-> profiles]
    ELSE [status |-> "ok",
          profiles |->
            [glite |-> Some(SlurmResourceContent(req)),
             category |-> IF IsNone(profiles.category)
                          THEN Some(Get(req.partition).name)
                          ELSE profiles.category]]

\* ---- the requests the model constructs ----
PartitionInputs == {None, Some(SCAVENGE), Some(EPHEMERAL), Some("gaia")}
JobTimeInputs ==
    {None, Some(0), Some(60),
     Some(SCAVENGE_MAX_WALLTIME), Some(SCAVENGE_MAX_WALLTIME + 1),
     Some(EPHEMERAL_MAX_WALLTIME), Some(EPHEMERAL_MAX_WALLTIME + 1),
     Some(_PROJECT_PARTITION_JOB_TIME_IN_MINUTES),
     Some(_PROJECT_PARTITION_JOB_TIME_IN_MINUTES + 1)}
MemoryInputs == {None, Some("2G"), Some("4G")}
CpuInputs == {None, Some(1), Some(4)}
GpuInputs == {None, Some(0), Some(1)}
ExcludeInputs ==
    {None, Some(<<"n", "1">>), Some(<<"n", "1", "0", ",", "n", "2">>)}
SingleNodeInputs == {None, Some(<<"n", "1">>), Some(<<"n", "2">>)}

\* Every partition with every job time; every combination of memory, cpus
\* and gpus; every combination of the two node options.
RequestInputs ==
    {RRArgs(p, None, None, None, t, None, None) :
        p \in PartitionInputs, t \in JobTimeInputs}
    \cup {RRArgs(None, m, c, g, None, None, None) :
        m \in MemoryInputs, c \in CpuInputs, g \in GpuInputs}
    \cup {RRArgs(Some("gaia"), None, None, None, None, e, s) :
        e \in ExcludeInputs, s \in SingleNodeInputs}

NoRRRet ==
    [op |-> "none", status |-> "ok", req |-> NoRequest,
     profiles |-> NoProfiles]

\* base.unify(override)
RRUnify ==
    LET r == unify(NewSlurmResourceRequest(rrBase),
                   NewSlurmResourceRequest(rrOver))
    IN /\ rrRet' = [op |-> "unify", status |-> r.status, req |-> r.req,
                    profiles |-> NoProfiles]
       /\ UNCHANGED <<rrBase, rrOver, locVars, wbVars, depVars, kvVars>>

\* base.apply_to_job(job) for a fresh job
RRApply ==
    LET req == NewSlurmResourceRequest(rrBase)
        r == apply_to_job(req, NoProfiles)
    IN /\ rrRet' = [op |-> "apply", status |-> r.status, req |-> req,
                    profiles |-> r.profiles]
       /\ UNCHANGED <<rrBase, rrOver, locVars, wbVars, depVars, kvVars>>

\* base.unify(override).apply_to_job(job) for a fresh job, as the builder
\* does with its default request and a job's request
RRUnifyApply ==
    LET u == unify(NewSlurmResourceRequest(rrBase),
                   NewSlurmResourceRequest(rrOver))
        r == apply_to_job(u.req, NoProfiles)
    IN /\ u.status = "ok"
       /\ rrRet' = [op |-> "unify_apply", status |-> r.status, req |-> u.req,
                    profiles |-> r.profiles]
       /\ UNCHANGED <<rrBase, rrOver, locVars, wbVars, depVars, kvVars>>

(***************************************************************************)
(* WorkflowBuilder                                                         *)
(***************************************************************************)
MaxJobs == 2

\* f with key k set to v
Put(f, k, v) == (k :> v) @@ f

CKPT_NAME == <<"_", "_", "_", "c", "k", "p", "t">>
PARAMS_FILE_NAME == "____params.params"
DOCKER_MOUNT_ROOT == "/data"

\* ---- values the callers pass ----
\* A Path, or the string that names it: directory and base name.
Path(dir, name) == [dir |-> dir, name |-> name]
\* A parameter value or a command-line token: a Path object, or a string
\* (a string that names a path has its directory in dir, any other string
\* has dir empty).
PathValue(p) == [isPath |-> TRUE, dir |-> p.dir, name |-> p.name]
PathString(p) == [isPath |-> FALSE, dir |-> p.dir, name |-> p.name]
Text(t) == [isPath |-> FALSE, dir |-> "", name |-> t]

PathF1 == Path("/nas/one", "f")
PathF2 == Path("/nas/two", "f")
PathG == Path("/nas/one", "g")
Paths == {PathF1, PathF2, PathG}

\* The argument payload of a job: structured parameters
\* (run_python_on_parameters) or a command line (run_python_on_args), the
\* command line as its space-separated tokens.
ParamsPayload(params) == [mode |-> "params", params |-> params, args |-> <<>>]
ArgsPayload(args) == [mode |-> "args", params |-> <<>>, args |-> args]
NoPayload == [mode |-> "none", params |-> <<>>, args |-> <<>>]

ParamsPayloadInputs ==
    {ParamsPayload([input_file |-> PathValue(PathF1), x |-> Text("3")]),
     ParamsPayload([input_file |-> PathValue(PathF1), x |-> Text("4")])}
ArgsPayloadInputs == {ArgsPayload(<<PathString(PathF1), Text("3")>>)}
PayloadInputs == ParamsPayloadInputs \cup ArgsPayloadInputs

ProgramInputs == {"multiply_by_x"}

JobLocators == {<< <<"m">> >>, << <<"s">> >>}

\* Optional[Container]
ContainerInputs == {None, Some([name |-> "python:3.6", image |-> "tar"])}

\* <<input_file_paths, output_file_paths>> of one call: no files, files
\* with different base names, and every way two files can share one.
FileListInputs ==
    {<<<<>>, <<>>>>,
     <<<<PathF1>>, <<PathG>>>>,
     <<<<PathF1, PathF2>>, <<>>>>,
     <<<<PathF1, PathF1>>, <<>>>>,
     <<<<>>, <<PathF1, PathF2>>>>,
     <<<<PathF1>>, <<PathF2>>>>}

\* Files for the staging of a containerized job: a file with the reserved
\* name of the parameter file, and one whose name is a single character of
\* it.
PathParams == Path("/nas/one", PARAMS_FILE_NAME)
PathP == Path("/nas/one", "p")
StagingFileListInputs ==
    {<<<<>>, <<>>>>,
     <<<<PathF1>>, <<PathG>>>>,
     <<<<PathF1, PathG>>, <<>>>>,
     <<<<PathG>>, <<PathF2>>>>,
     <<<<PathParams>>, <<>>>>,
     <<<<PathF1>>, <<PathParams>>>>,
     <<<<PathP>>, <<>>>>}

\* Payloads of a containerized job: a parameter that is a Path, one that is
\* the string naming the same file, and command lines with and without the
\* name of a file.
StagingPayloadInputs ==
    {ParamsPayload([input_file |-> PathValue(PathF1), x |-> Text("3")]),
     ParamsPayload([input_file |-> PathString(PathF1), x |-> Text("3")]),
     ParamsPayload([input_file |-> PathValue(PathG), x |-> Text("4")]),
     ArgsPayload(<<PathString(PathF1), Text("3")>>),
     ArgsPayload(<<PathString(PathG), PathString(PathF2)>>)}

\* Optional[ResourceRequest] of one call
JobRequestInputs ==
    {None,
     Some(NewSlurmResourceRequest(
        RRArgs(Some(SCAVENGE), None, None, None,
               Some(SCAVENGE_MAX_WALLTIME + 1), None, None)))}

\* Optional[str] category of one call
CategoryInputs == {None, Some("arithmetic")}

\* Optional[ResourceRequest] of one call, for the category a job gets: no
\* request, one that names a partition, one that names none.
CategoryRequestInputs ==
    {None,
     Some(NewSlurmResourceRequest(
        RRArgs(Some(EPHEMERAL), None, None, None, None, None, None))),
     Some(NewSlurmResourceRequest(
        RRArgs(None, Some("4G"), None, None, None, None, None)))}

\* default_resource_request of the builder
DefaultRequestInputs ==
    {NewSlurmResourceRequest(
        RRArgs(Some("gaia"), None, None, None, None, None, None))}

\* ---- signatures, nodes, jobs ----
\* (computed_module_or_path, signature_args or args_or_params)
PythonSignature(prog, payload) ==
    [kind |-> "python", prog |-> prog, payload |-> payload, dir |-> <<>>,
     job_name |-> <<>>, commands |-> {}]
\* (docker_image_name, docker_args); the args name the scratch root, which
\* ends in str(job_name)
ContainerSignature(image_name, dir) ==
    [kind |-> "container", prog |-> image_name, payload |-> NoPayload,
     dir |-> dir, job_name |-> <<>>, commands |-> {}]
\* (job_name, commands_hashable)
BashSignature(job_name, commands) ==
    [kind |-> "bash", prog |-> "", payload |-> NoPayload, dir |-> <<>>,
     job_name |-> job_name, commands |-> commands]

\* DependencyNode.from_job(job, output_files=...)
DependencyNode(job, output_files) ==
    [job |-> job, output_files |-> output_files]
NoNode == DependencyNode(0, {})

\* A Job of the graph: its transformation, profiles and uses.
NewJob(transformation) ==
    [transformation |-> transformation, profiles |-> NoProfiles,
     inputs |-> {}, outputs |-> {}]

\* WorkflowBuilder(...): the attrs defaults and factories.
NewWorkflowBuilder(default_resource_request) ==
    [jobs |-> <<>>, edges |-> {}, _signature_to_job |-> <<>>,
     _lfn_to_file |-> {}, _replica_catalog |-> {},
     files |-> <<>>, replicas |-> {},
     _transformation_catalog |-> <<>>,
     _transformation_name_to_transformations |-> {},
     _container_catalog |-> {},
     _category_to_max_jobs |-> <<>>, _properties |-> <<>>,
     default_resource_request |-> default_resource_request]

\* The workflow directory when a builder is made over it: the job
\* directories in ckpt hold a ___ckpt sentinel and the container directories
\* in service hold start.sh and stop.sh, both left by earlier runs; nothing
\* has been emitted.
WorkflowDirectory(ckpt, service) ==
    [ckpt |-> ckpt, script |-> {}, params |-> {}, service |-> service,
     dax |-> None, replicas_yml |-> {}, pegasus_properties |-> <<>>,
     written |-> {}]

\* ---- methods ----
\* A file written under the workflow directory: kind is "script" (___run.sh
\* or script.sh) or "params" (____params.params).  fs.written lists what the
\* call in progress has written.
WriteFile(f, dir, kind) ==
    [f EXCEPT ![kind] = @ \cup {dir}, !.written = @ \cup {<<dir, kind>>}]

\* directory_for: workflow_directory / str(locator), as the text after
\* the workflow directory.
directory_for(locator) == LocatorRepr(locator)

\* _job_name_for: str(locator).replace("/", "_"), no experiment name.
_job_name_for(locator) ==
    [i \in 1..Len(LocatorRepr(locator)) |->
        IF LocatorRepr(locator)[i] = "/" THEN "_"
        ELSE LocatorRepr(locator)[i]]

\* immutableset(iterable): the elements in the order of their first
\* occurrence, each once.
RECURSIVE immutableset(_)
immutableset(items) ==
    IF Len(items) = 0 THEN <<>>
    ELSE LET front == immutableset(SubSeq(items, 1, Len(items) - 1))
             last == items[Len(items)]
         IN IF \E i \in 1..Len(front) : front[i] = last
            THEN front ELSE Append(front, last)

\* ---- depends_on values ----
\* What a caller may pass as depends_on: a DependencyNode, an Artifact (its
\* depends_on, an ImmutableSet of DependencyNodes, in items) or a collection
\* of such values (its elements in items).
DepNode(node) == [kind |-> "node", node |-> node, items |-> <<>>]
DepList(items) == [kind |-> "list", node |-> NoNode, items |-> items]
DepArtifact(depends_on) ==
    [kind |-> "artifact", node |-> NoNode,
     items |-> [i \in 1..Len(depends_on) |-> DepNode(depends_on[i])]]

\* A list, or an immutableset, of DependencyNodes.
NodeList(nodes) == DepList([i \in 1..Len(nodes) |-> DepNode(nodes[i])])

\* A value that is no DependencyNode, no Artifact and not iterable: an int,
\* None.
DepOther == [kind |-> "other", node |-> NoNode, items |-> <<>>]

\* The error of the first element, left to right, whose canonicalization
\* raises; "ok" if none does.
RECURSIVE FirstError(_)
FirstError(errors) ==
    IF Len(errors) = 0 THEN "ok"
    ELSE IF Head(errors) # "ok" THEN Head(errors)
    ELSE FirstError(Tail(errors))

\* The error _canonicalize_depends_on(dep_param, max_depth=n) raises, "ok"
\* if it returns.  With max_depth > 0 the value is iterated whatever it is:
\* "for x in dep_param" raises TypeError for a value that is not iterable.
RECURSIVE _canonicalize_error(_, _)
_canonicalize_error(dep_param, max_depth) ==
    IF dep_param.kind = "node" THEN "ok"
    ELSE IF dep_param.kind = "artifact" THEN "ok"
    ELSE IF max_depth > 0
    THEN IF dep_param.kind = "other" THEN "TypeError"
         ELSE FirstError([i \in 1..Len(dep_param.items) |->
                _canonicalize_error(dep_param.items[i], max_depth - 1)])
    ELSE "RuntimeError"

\* _canonicalize_depends_on(dep_param, max_depth=n) when it does not raise:
\* [dep_param] for a node, the depends_on set of an Artifact, the list of
\* the canonicalized elements of a collection.
RECURSIVE _canonicalize_nested(_, _)
_canonicalize_nested(dep_param, max_depth) ==
    IF dep_param.kind = "node" THEN DepList(<<dep_param>>)
    ELSE IF dep_param.kind = "artifact" THEN DepList(dep_param.items)
    ELSE DepList([i \in 1..Len(dep_param.items) |->
                    _canonicalize_nested(dep_param.items[i], max_depth - 1)])

\* more_itertools.collapse: the nodes of a nested list, left to right.
RECURSIVE collapse(_)
collapse(nested) ==
    IF nested.kind = "node" THEN <<nested.node>>
    ELSE IF Len(nested.items) = 0 THEN <<>>
    ELSE collapse(Head(nested.items))
            \o collapse(DepList(Tail(nested.items)))

\* A canonicalization that keeps every occurrence of a node.
_canonicalize_depends_on_keeps_duplicates(dep_param) ==
    collapse(_canonicalize_nested(dep_param, 2))

\* _canonicalize_depends_on(dep_param) when it does not raise:
\* immutableset(collapse(...)) keeps each node once.
_canonicalize_depends_on(dep_param) ==
    immutableset(collapse(_canonicalize_nested(dep_param, 2)))

\* ---- the depends_on values the model constructs ----
MaxDepLen == 2

\* Three scheduled jobs, and an Artifact computed by the last two.
DepNodeInputs ==
    {DependencyNode(1, {"m/___ckpt"}), DependencyNode(2, {"s/___ckpt"}),
     DependencyNode(3, {"t/___ckpt"})}
DepAtomInputs ==
    {DepNode(DependencyNode(1, {"m/___ckpt"})),
     DepNode(DependencyNode(2, {"s/___ckpt"})),
     DepArtifact(<<DependencyNode(2, {"s/___ckpt"}),
                   DependencyNode(3, {"t/___ckpt"})>>)}
\* Collections of nodes and Artifacts, and collections of those.
DepFlatInputs == {DepList(q) : q \in SeqsUpTo(DepAtomInputs, MaxDepLen)}
DepNestedInputs ==
    {DepList(q) : q \in SeqsUpTo(DepAtomInputs \cup DepFlatInputs, MaxDepLen)}
\* Collections nested three levels.
DepTooDeepInputs ==
    {DepList(<<DepList(<<DepList(<<a>>)>>)>>) : a \in DepAtomInputs}
        \cup {DepList(<<a, DepList(<<DepList(<<>>)>>)>>) : a \in DepAtomInputs}
DepInputs == DepAtomInputs \cup DepNestedInputs \cup DepTooDeepInputs
\* Values that hold something that is no node, Artifact or collection: alone,
\* in a collection, in a collection of a collection, and before and after a
\* collection that is nested too deep.
DepUnsupportedInputs ==
    {DepOther, DepList(<<DepOther>>), DepList(<<DepList(<<DepOther>>)>>)}
        \cup {DepList(<<a, DepOther>>) : a \in DepAtomInputs \cup DepFlatInputs}
        \cup {DepList(<<DepOther, d>>) : d \in DepTooDeepInputs}
        \cup {DepList(<<d, DepOther>>) : d \in DepTooDeepInputs}

NoDep == DepList(<<>>)
NoDepRet == [op |-> "none", status |-> "ok", value |-> <<>>]

\* _canonicalize_depends_on(dep)
Canonicalize ==
    /\ depRet' =
        IF _canonicalize_error(dep, 2) # "ok"
        THEN [op |-> "canonicalize", status |-> _canonicalize_error(dep, 2),
              value |-> <<>>]
        ELSE [op |-> "canonicalize", status |-> "ok",
              value |-> _canonicalize_depends_on(dep)]
    /\ UNCHANGED <<dep, locVars, rrVars, wbVars, kvVars>>

\* File(logical_file_name): a new object, told from every other one by
\* its serial.
File(logical_file_name, serial) ==
    [lfn |-> logical_file_name, serial |-> serial]

\* One add_replica(site, lfn, pfn) of the replica catalog
Replica(logical_file_name, physical_file_path) ==
    [lfn |-> logical_file_name, pfn |-> physical_file_path]

\* A create_file that makes and registers a file at every call.
create_file_uncached(w, logical_file_name, physical_file_path, add_to_catalog) ==
    [w EXCEPT
        !._replica_catalog =
            IF add_to_catalog THEN @ \cup {logical_file_name} ELSE @,
        !.replicas =
            IF add_to_catalog
            THEN @ \cup {Replica(logical_file_name, physical_file_path)}
            ELSE @,
        !._lfn_to_file = @ \cup {logical_file_name},
        !.files = Put(@, logical_file_name,
                      File(logical_file_name,
                           Cardinality(w._lfn_to_file) + 1))]

\* create_file(logical_file_name, physical_file_path, add_to_catalog=...):
\* _lfn_to_file is the set of the cached names, files the File of each,
\* _replica_catalog the set of the registered names and replicas the
\* registrations.  The File returned is files[logical_file_name] of the
\* result.
create_file(w, logical_file_name, physical_file_path, add_to_catalog) ==
    IF logical_file_name \notin w._lfn_to_file
    THEN [w EXCEPT
            !._replica_catalog =
                IF add_to_catalog THEN @ \cup {logical_file_name} ELSE @,
            !.replicas =
                IF add_to_catalog
                THEN @ \cup {Replica(logical_file_name, physical_file_path)}
                ELSE @,
            !._lfn_to_file = @ \cup {logical_file_name},
            !.files = Put(@, logical_file_name,
                          File(logical_file_name,
                               Cardinality(w._lfn_to_file) + 1))]
    ELSE w

\* get_file(logical_file_name)
get_file(w, logical_file_name) ==
    IF logical_file_name \notin w._lfn_to_file
    THEN [status |-> "RuntimeError", file |-> None]
    ELSE [status |-> "ok", file |-> Some(w.files[logical_file_name])]

\* set_resource_request
set_resource_request(w, resource_request) ==
    IF ~IsNone(resource_request)
    THEN unify(w.default_resource_request, Get(resource_request))
    ELSE [status |-> "ok", req |-> w.default_resource_request]

\* Edges that point from the new job to its parents.
DependencyEdges_reversed(depends_on, job_id) ==
    {<<job_id, depends_on[i].job>> : i \in 1..Len(depends_on)}

\* Edges in both directions between the new job and its parents.
DependencyEdges_both_ways(depends_on, job_id) ==
    {<<depends_on[i].job, job_id>> : i \in 1..Len(depends_on)}
        \cup {<<job_id, depends_on[i].job>> : i \in 1..Len(depends_on)}

\* A job that is wired to no parent.
DependencyEdges_none(depends_on, job_id) == {}

\* The edges _update_job_settings adds for a new job.
DependencyEdges(depends_on, job_id) ==
    {<<depends_on[i].job, job_id>> : i \in 1..Len(depends_on)}

\* The files _update_job_settings adds to the inputs of a new job.
DependencyInputs(depends_on) ==
    UNION {depends_on[i].output_files : i \in 1..Len(depends_on)}

\* A builder that never finds a checkpoint.
CheckpointExists_never(f, dir) == FALSE

\* add_to_catalog of the checkpoint file: checkpoint_path.exists()
CheckpointExists(f, dir) == dir \in f.ckpt

\* A category that is set only on a job that has none yet.
add_dagman_profile_keeps_first(profiles, category) ==
    IF IsNone(profiles.category)
    THEN [profiles EXCEPT !.category = category]
    ELSE profiles

\* job.add_dagman_profile(category=category, ...): a profile key holds one
\* value, and a keyword that is None sets nothing.
add_dagman_profile(profiles, category) ==
    IF IsNone(category)
    THEN profiles
    ELSE [profiles EXCEPT !.category = category]

\* _update_job_settings: the builder afterwards, the error raised if any,
\* and the DependencyNode returned.
_update_job_settings(w, f, dir, ckpt_name, depends_on, job, resource_request, category) ==
    LET id == Cardinality(DOMAIN w.jobs) + 1
        added == [w EXCEPT !.jobs = Put(@, id, job)]
        applied == apply_to_job(resource_request, job.profiles)
        lfn == LocatorRepr(ckpt_name)
        wired == [added EXCEPT
                    !.jobs[id].profiles =
                        add_dagman_profile(applied.profiles, category),
                    !.jobs[id].inputs = DependencyInputs(depends_on),
                    !.jobs[id].outputs = {lfn},
                    !.edges = @ \cup DependencyEdges(depends_on, id)]
    IN IF applied.status # "ok"
       THEN [wb |-> added, status |-> applied.status, node |-> NoNode]
       ELSE [wb |-> create_file(wired, lfn, lfn, CheckpointExists(f, dir)),
             status |-> "ok",
             node |-> DependencyNode(id, {lfn})]

\* The end of every scheduling method once its script is written and its
\* transformation is in the catalog: set_resource_request, Job(...),
\* _update_job_settings and the cache entry.
ScheduleJob(w, f, job_name, transformation, signature, depends_on, resource_request, category) ==
    LET dir == directory_for(job_name)
        ckpt_name == __truediv__(job_name, StrVal(CKPT_NAME)).parts
        rr == set_resource_request(w, resource_request)
        u == _update_job_settings(w, f, dir, ckpt_name, depends_on,
                                  NewJob(transformation), rr.req, category)
    IN IF rr.status # "ok"
       THEN [wb |-> w, fs |-> f, status |-> rr.status, node |-> NoNode]
       ELSE IF u.status # "ok"
       THEN [wb |-> u.wb, fs |-> f, status |-> u.status, node |-> NoNode]
       ELSE [wb |-> [u.wb EXCEPT !._signature_to_job =
                                    Put(@, signature, u.node)],
             fs |-> f, status |-> "scheduled", node |-> u.node]

\* Transformation(self._job_name_for(job_name), ...) added to the catalog,
\* then the job: the part _run_python_job and run_container share.
ScheduleScriptJob(w, f, job_name, signature, depends_on, resource_request, category) ==
    ScheduleJob([w EXCEPT !._transformation_catalog =
                            Append(@, _job_name_for(job_name))],
                f, job_name, _job_name_for(job_name), signature, depends_on,
                resource_request, category)

\* _define_transformation(name, ...) without a container: the transformation
\* of that name is made and added to the catalog once.
_define_transformation(w, name) ==
    IF name \in w._transformation_name_to_transformations
    THEN w
    ELSE [w EXCEPT !._transformation_catalog = Append(@, name),
                   !._transformation_name_to_transformations = @ \cup {name}]

BASH == <<"b", "a", "s", "h">>

\* immutableset(command) as a key of the cache: two immutablesets are equal
\* when they have the same elements, whatever the order and the repetitions
\* of the lists they were made of.
commands_hashable(command) == {command[i] : i \in 1..Len(command)}

\* run_bash: command is the list of commands, a single string made a list
\* of one.
run_bash(w, f, job_name, command, depends_on, resource_request, category) ==
    LET dir == directory_for(job_name)
        signature == BashSignature(job_name, commands_hashable(command))
    IN IF signature \in DOMAIN w._signature_to_job
       THEN [wb |-> w, fs |-> f, status |-> "duplicate",
             node |-> w._signature_to_job[signature]]
       ELSE ScheduleJob(_define_transformation(w, BASH),
                        WriteFile(f, dir, "script"), job_name, BASH,
                        signature,
                        _canonicalize_depends_on(NodeList(depends_on)),
                        resource_request, category)

\* run_container
run_container(w, f, job_name, docker_image_name, docker_run_command, depends_on, resource_request, category) ==
    LET dir == directory_for(job_name)
        signature == ContainerSignature(docker_image_name, dir)
        f1 == WriteFile(f, dir, "script")
    IN IF signature \in DOMAIN w._signature_to_job
       THEN [wb |-> w, fs |-> f, status |-> "duplicate",
             node |-> w._signature_to_job[signature]]
       ELSE ScheduleScriptJob(w, f1, job_name, signature,
                              _canonicalize_depends_on(NodeList(depends_on)),
                              resource_request, category)

\* set(params_file_name): the characters of "____params.params"
InitialFileNames == {"_", "p", "a", "r", "m", "s", "."}

\* The two loops of _run_python_in_container over input_files and then
\* output_files: TRUE iff one of them raises for a name already in
\* file_names.
RECURSIVE DuplicateFileName(_, _)
DuplicateFileName(files, file_names) ==
    IF Len(files) = 0 THEN FALSE
    ELSE IF Head(files).name \in file_names THEN TRUE
    ELSE DuplicateFileName(Tail(files), file_names \cup {Head(files).name})

\* str(converted_..._files[str(value.absolute())].docker.absolute())
DockerPathString(p) == PathString(Path(DOCKER_MOUNT_ROOT, p.name))

\* The keys of converted_input_files and converted_output_files.
Converted(files) == {files[i] : i \in 1..Len(files)}

\* The parameters rewritten for the container.
ModifiedParams(params, input_files, output_files) ==
    [key \in DOMAIN params |->
        IF params[key].isPath
           /\ Path(params[key].dir, params[key].name)
                \in Converted(input_files) \cup Converted(output_files)
        THEN DockerPathString(params[key])
        ELSE params[key]]

\* The command-line tokens rewritten for the container.
ModifiedArgs(args, input_files, output_files) ==
    [i \in 1..Len(args) |->
        IF ~args[i].isPath
           /\ Path(args[i].dir, args[i].name)
                \in Converted(input_files) \cup Converted(output_files)
        THEN DockerPathString(args[i])
        ELSE args[i]]

\* ---- the files of a containerized job ----
\* A place a file of a containerized job is at: on the NAS (a path the
\* caller gave), in the job's directory of the workflow directory, or under
\* the job's scratch root DOCKERMOUNT_SCRATCH_PATH_ROOT / name / job_name.
NasPath(p) == [root |-> "nas", job |-> <<>>, dir |-> p.dir, name |-> p.name]
JobDirPath(job_name, name) ==
    [root |-> "workflow", job |-> directory_for(job_name), dir |-> "",
     name |-> name]
ScratchPath(job_name, name) ==
    [root |-> "scratch", job |-> LocatorRepr(job_name), dir |-> "",
     name |-> name]

\* One line of the pre- or post-job bash: mkdir -p dst, cp src dst, or the
\* empty line.
NoPath == [root |-> "", job |-> <<>>, dir |-> "", name |-> ""]
Mkdir(dst) == [cmd |-> "mkdir", src |-> NoPath, dst |-> dst]
Cp(src, dst) == [cmd |-> "cp", src |-> src, dst |-> dst]
EmptyLine == [cmd |-> "", src |-> NoPath, dst |-> NoPath]

\* Post-job commands that also copy the inputs back.
post_job_bash_with_inputs(job_name, input_files, output_files) ==
    [i \in 1..Len(input_files \o output_files) |->
        Cp(ScratchPath(job_name, (input_files \o output_files)[i].name),
           NasPath((input_files \o output_files)[i]))]

\* post_job_bash: cp scratch nas for each of converted_output_files
post_job_bash(job_name, input_files, output_files) ==
    [i \in 1..Len(output_files) |->
        Cp(ScratchPath(job_name, output_files[i].name),
           NasPath(output_files[i]))]

\* pre_job_bash: mkdir -p scratch_root, then the copy of the parameter file
\* or an empty line, then cp nas scratch for each of converted_input_files
pre_job_bash(job_name, payload, input_files) ==
    <<Mkdir(ScratchPath(job_name, "")),
      IF payload.mode = "params"
      THEN Cp(JobDirPath(job_name, PARAMS_FILE_NAME),
              ScratchPath(job_name, PARAMS_FILE_NAME))
      ELSE EmptyLine>>
        \o [i \in 1..Len(input_files) |->
                Cp(NasPath(input_files[i]),
                   ScratchPath(job_name, input_files[i].name))]

\* The text of one staging command: its words with a blank between them.
CommandText(line) ==
    IF line.cmd = "" THEN <<>>
    ELSE IF line.cmd = "mkdir"
    THEN <<"mkdir -p", " ", line.dst.root, line.dst.name>>
    ELSE <<"cp", " ", line.src.root, line.src.name, " ",
           line.dst.root, line.dst.name>>

\* What iterating a str gives: its characters, each a str of length one.
IterateStr(s) == [i \in 1..Len(s) |-> <<s[i]>>]

\* "\n".join(chain(commands, user_bash)): the staging commands, then what
\* iterating the user's bash gives, a newline between each two.
staging_text(commands, user_bash) ==
    Join([i \in 1..Len(commands) |-> CommandText(commands[i])]
            \o IterateStr(user_bash), "\n")

\* pre_job_bash and post_job_bash as handed to run_container: a text, the
\* sequence of its characters and words.
pre_job_text(job_name, payload, input_files, pre_docker_bash) ==
    staging_text(pre_job_bash(job_name, payload, input_files),
                 pre_docker_bash)
post_job_text(job_name, input_files, output_files, post_docker_bash) ==
    staging_text(post_job_bash(job_name, input_files, output_files),
                 post_docker_bash)

\* What _run_python_in_container generates for a job: the parameters written
\* to ____params.params, the arguments of the python command and the two
\* lists of staging commands.
NoScript ==
    [params |-> <<>>, python_args |-> <<>>, pre_job_bash |-> <<>>,
     post_job_bash |-> <<>>]
ContainerJobScript(job_name, payload, input_files, output_files) ==
    [params |->
        IF payload.mode = "params"
        THEN ModifiedParams(payload.params, input_files, output_files)
        ELSE <<>>,
     python_args |->
        IF payload.mode = "params"
        THEN <<PathString(Path(DOCKER_MOUNT_ROOT, PARAMS_FILE_NAME))>>
        ELSE ModifiedArgs(payload.args, input_files, output_files),
     pre_job_bash |-> pre_job_bash(job_name, payload, input_files),
     post_job_bash |-> post_job_bash(job_name, input_files, output_files)]

\* _run_python_in_container
_run_python_in_container(w, f, job_name, prog, payload, container, depends_on, input_files, output_files, resource_request, category) ==
    LET dir == directory_for(job_name)
        withParams ==
            IF payload.mode = "params" THEN WriteFile(f, dir, "params") ELSE f
        python_args ==
            ContainerJobScript(job_name, payload, input_files,
                               output_files).python_args
    IN IF DuplicateFileName(input_files \o output_files, InitialFileNames)
       THEN [wb |-> w, fs |-> f, status |-> "DuplicateFileName",
             node |-> NoNode]
       ELSE run_container(w, withParams, job_name, container.name,
                          [prog |-> prog, args |-> python_args],
                          depends_on, resource_request, category)

\* _run_python_job, reached from run_python_on_parameters and
\* run_python_on_args
_run_python_job(w, f, job_name, prog, payload, depends_on, resource_request, container, input_files, output_files, category) ==
    LET dir == directory_for(job_name)
        deps == _canonicalize_depends_on(NodeList(depends_on))
        signature == PythonSignature(prog, payload)
        \* CondaJobScriptGenerator.write_shell_script_to
        f1 == WriteFile(IF payload.mode = "params"
                        THEN WriteFile(f, dir, "params") ELSE f,
                        dir, "script")
    IN IF signature \in DOMAIN w._signature_to_job
       THEN [wb |-> w, fs |-> f, status |-> "duplicate",
             node |-> w._signature_to_job[signature]]
       ELSE IF ~IsNone(container)
       THEN _run_python_in_container(w, f, job_name, prog, payload,
                                     Get(container), deps, input_files,
                                     output_files, resource_request, category)
       ELSE ScheduleScriptJob(w, f1, job_name, signature, deps,
                              resource_request, category)

\* ---- the calls ----
\* Two of the supplied input and output paths have the same base name.
SameBaseName(input_files, output_files) ==
    LET all == input_files \o output_files
    IN \E i, j \in 1..Len(all) : i # j /\ all[i].name = all[j].name

NoRet ==
    [op |-> "none", status |-> "ok", node |-> NoNode, job_name |-> <<>>,
     prog |-> "", payload |-> NoPayload, container |-> FALSE,
     depends_on |-> <<>>, same_base_name |-> FALSE,
     resource_request |-> None, category |-> None, answer |-> "",
     container_name |-> "", container_type |-> "",
     input_files |-> <<>>, output_files |-> <<>>, script |-> NoScript,
     command |-> <<>>, pre_docker_bash |-> <<>>, post_docker_bash |-> <<>>,
     pre_job |-> <<>>, post_job |-> <<>>, file |-> None,
     logical_file_name |-> <<>>, physical_file_path |-> <<>>,
     add_to_catalog |-> FALSE]

Nodes == {wb._signature_to_job[sig] : sig \in DOMAIN wb._signature_to_job}

\* depends_on of one call: a list of at most two of the nodes returned so
\* far, the same node twice included.
DependsOnInputs ==
    {<<>>} \cup {<<n>> : n \in Nodes} \cup {<<n, m>> : n, m \in Nodes}

\* run_python_on_parameters / run_python_on_args, pre_job_bash and
\* post_job_bash given
RunPythonJob(job_name, prog, payload, depends_on, resource_request, container, io, category, pre_docker_bash, post_docker_bash) ==
    \E r \in {_run_python_job(wb, [fs EXCEPT !.written = {}], job_name, prog,
                              payload, depends_on, resource_request,
                              container, io[1], io[2], category)} :
       /\ Cardinality(DOMAIN r.wb.jobs) <= MaxJobs
       /\ IsNone(container) => io = <<<<>>, <<>>>>
       /\ wb' = r.wb
       /\ fs' = r.fs
       /\ ret' = [op |-> "run_python", status |-> r.status, node |-> r.node,
                  job_name |-> job_name, prog |-> prog, payload |-> payload,
                  container |-> ~IsNone(container),
                  depends_on |-> _canonicalize_depends_on(NodeList(depends_on)),
                  same_base_name |-> SameBaseName(io[1], io[2]),
                  resource_request |-> resource_request,
                  category |-> category, answer |-> "",
                  container_name |-> "", container_type |-> "",
                  input_files |-> io[1], output_files |-> io[2],
                  script |->
                    IF ~IsNone(container) /\ r.status = "scheduled"
                    THEN ContainerJobScript(job_name, payload, io[1], io[2])
                    ELSE NoScript,
                  command |-> <<>>,
                  pre_docker_bash |-> pre_docker_bash,
                  post_docker_bash |-> post_docker_bash,
                  pre_job |->
                    IF ~IsNone(container) /\ r.status = "scheduled"
                    THEN pre_job_text(job_name, payload, io[1],
                                      pre_docker_bash)
                    ELSE <<>>,
                  post_job |->
                    IF ~IsNone(container) /\ r.status = "scheduled"
                    THEN post_job_text(job_name, io[1], io[2],
                                       post_docker_bash)
                    ELSE <<>>,
                  file |-> None, logical_file_name |-> <<>>,
                  physical_file_path |-> <<>>, add_to_catalog |-> FALSE]
       /\ UNCHANGED <<locVars, rrVars, depVars, kvVars>>

\* run_python_on_parameters / run_python_on_args with the default
\* pre_job_bash = "" and post_job_bash = ""
RunPython(job_name, prog, payload, depends_on, resource_request, container, io, category) ==
    RunPythonJob(job_name, prog, payload, depends_on, resource_request,
                 container, io, category, <<>>, <<>>)

\* The logical file name of the completion artifact of the job at a locator.
CheckpointLfn(job_name) ==
    LocatorRepr(__truediv__(job_name, StrVal(CKPT_NAME)).parts)

\* create_file(logical_file_name, physical_file_path, add_to_catalog=...)
CreateFile(logical_file_name, physical_file_path, add_to_catalog) ==
    /\ wb' = create_file(wb, logical_file_name, physical_file_path,
                         add_to_catalog)
    /\ fs' = [fs EXCEPT !.written = {}]
    /\ ret' = [NoRet EXCEPT !.op = "create_file",
                            !.file = Some(wb'.files[logical_file_name]),
                            !.logical_file_name = logical_file_name,
                            !.physical_file_path = physical_file_path,
                            !.add_to_catalog = add_to_catalog]
    /\ UNCHANGED <<locVars, rrVars, depVars, kvVars>>

\* get_file(logical_file_name)
GetFile(logical_file_name) ==
    /\ wb' = wb
    /\ fs' = [fs EXCEPT !.written = {}]
    /\ ret' = [NoRet EXCEPT !.op = "get_file",
                            !.status = get_file(wb, logical_file_name).status,
                            !.file = get_file(wb, logical_file_name).file,
                            !.logical_file_name = logical_file_name]
    /\ UNCHANGED <<locVars, rrVars, depVars, kvVars>>

\* A bash command or a list of them
CommandInputs == {<<"echo">>, <<"echo", "date">>}
\* Lists that differ from those in order or in repetition only.
CommandListInputs ==
    CommandInputs
        \cup {<<"date", "echo">>, <<"echo", "echo">>, <<"date">>}

\* run_bash
RunBash(job_name, command, depends_on, resource_request, category) ==
    \E r \in {run_bash(wb, [fs EXCEPT !.written = {}], job_name, command,
                       depends_on, resource_request, category)} :
       /\ Cardinality(DOMAIN r.wb.jobs) <= MaxJobs
       /\ wb' = r.wb
       /\ fs' = r.fs
       /\ ret' = [NoRet EXCEPT !.op = "run_bash", !.status = r.status,
                               !.node = r.node, !.job_name = job_name,
                               !.command = command,
                               !.depends_on =
                                    _canonicalize_depends_on(
                                        NodeList(depends_on)),
                               !.resource_request = resource_request,
                               !.category = category]
       /\ UNCHANGED <<locVars, rrVars, depVars, kvVars>>

\* ---- docker services ----
CONTAINERS == <<"c", "o", "n", "t", "a", "i", "n", "e", "r", "s">>
START == <<"s", "t", "a", "r", "t">>
STOP == <<"s", "t", "o", "p">>
START_SH == <<"s", "t", "a", "r", "t", ".", "s", "h">>
STOP_SH == <<"s", "t", "o", "p", ".", "s", "h">>

\* Locator(("containers", container.name))
container_loc(container) == NewLocator(SeqVal(<<CONTAINERS, container.name>>))

\* str((container_dir / name).absolute()), as the text after the workflow
\* directory.
ServiceScriptPath(container_dir, name) == container_dir \o <<"/">> \o name

\* write_service_shell_script_to: start.sh and stop.sh are both written
\* into the container directory.
write_service_shell_script_to(f, container_dir) ==
    WriteFile(f, container_dir, "service")

\* container_stop_path.exists()
StopScriptExists(f, container_dir) == container_dir \in f.service

\* start_docker_as_service: the scripts are written, then the start script
\* is scheduled as a bash job named containers/<name>/start.
start_docker_as_service(w, f, container, depends_on, resource_request) ==
    LET cl == container_loc(container)
        container_dir == directory_for(cl.parts)
        job_name == __truediv__(cl.parts, StrVal(START))
    IN IF cl.status # "ok"
       THEN [wb |-> w, fs |-> f, status |-> cl.status, node |-> NoNode]
       ELSE run_bash(w, write_service_shell_script_to(f, container_dir),
                     job_name.parts,
                     <<ServiceScriptPath(container_dir, START_SH)>>,
                     depends_on, resource_request, None)

\* stop_docker_as_service: RuntimeError unless stop.sh exists, then the stop
\* script is scheduled as a bash job named containers/<name>/stop.
stop_docker_as_service(w, f, container, depends_on, resource_request) ==
    LET cl == container_loc(container)
        container_dir == directory_for(cl.parts)
        job_name == __truediv__(cl.parts, StrVal(STOP))
    IN IF cl.status # "ok"
       THEN [wb |-> w, fs |-> f, status |-> cl.status, node |-> NoNode]
       ELSE IF ~StopScriptExists(f, container_dir)
       THEN [wb |-> w, fs |-> f, status |-> "RuntimeError", node |-> NoNode]
       ELSE run_bash(w, f, job_name.parts,
                     <<ServiceScriptPath(container_dir, STOP_SH)>>,
                     depends_on, resource_request, None)

\* The name of the start or stop job of a container; empty if the container
\* name makes no Locator.
ServiceJobName(container, which) ==
    IF container_loc(container).status # "ok" THEN <<>>
    ELSE __truediv__(container_loc(container).parts, StrVal(which)).parts

\* The cache key of the start job of a container.
StartSignature(container) ==
    BashSignature(ServiceJobName(container, START),
                  commands_hashable(
                    <<ServiceScriptPath(
                        directory_for(container_loc(container).parts),
                        START_SH)>>))

\* Containers run as services: name and image.
ServiceContainerInputs ==
    {[name |-> <<"d", "b">>, image |-> "tar"],
     [name |-> <<"w", "e", "b">>, image |-> "tar"],
     [name |-> <<"a", "=", "b">>, image |-> "tar"]}

\* The container directories a builder can find in a reused workflow
\* directory.
ServiceDirectories ==
    {directory_for(container_loc(c).parts) :
        c \in {d \in ServiceContainerInputs : container_loc(d).status = "ok"}}

StartDockerAsService(container, depends_on, resource_request) ==
    \E r \in {start_docker_as_service(wb, [fs EXCEPT !.written = {}],
                                      container, depends_on,
                                      resource_request)} :
       /\ Cardinality(DOMAIN r.wb.jobs) <= MaxJobs
       /\ wb' = r.wb
       /\ fs' = r.fs
       /\ ret' = [NoRet EXCEPT !.op = "start_docker_as_service",
                               !.status = r.status, !.node = r.node,
                               !.job_name = ServiceJobName(container, START),
                               !.depends_on =
                                    _canonicalize_depends_on(
                                        NodeList(depends_on)),
                               !.resource_request = resource_request]
       /\ UNCHANGED <<locVars, rrVars, depVars, kvVars>>

StopDockerAsService(container, depends_on, resource_request) ==
    \E r \in {stop_docker_as_service(wb, [fs EXCEPT !.written = {}],
                                     container, depends_on,
                                     resource_request)} :
       /\ Cardinality(DOMAIN r.wb.jobs) <= MaxJobs
       /\ wb' = r.wb
       /\ fs' = r.fs
       /\ ret' = [NoRet EXCEPT !.op = "stop_docker_as_service",
                               !.status = r.status, !.node = r.node,
                               !.job_name = ServiceJobName(container, STOP),
                               !.depends_on =
                                    _canonicalize_depends_on(
                                        NodeList(depends_on)),
                               !.resource_request = resource_request]
       /\ UNCHANGED <<locVars, rrVars, depVars, kvVars>>

\* ---- containers ----
\* A table that does not know shifter.
_STR_TO_CONTAINER_TYPE_without_shifter ==
    ("docker" :> "DOCKER") @@ ("singularity" :> "SINGULARITY")

\* _STR_TO_CONTAINER_TYPE: the type string to the Container type.
_STR_TO_CONTAINER_TYPE ==
    ("docker" :> "DOCKER") @@ ("singularity" :> "SINGULARITY")
        @@ ("shifter" :> "SHIFTER")

\* Container(container_name, container_type=..., image=...)
Container(container_name, container_type, image) ==
    [name |-> container_name, container_type |-> container_type,
     image |-> image]

\* add_container: ValueError for a type string that is not a key of the
\* table, else the Container is made and added to the catalog.  The
\* containers of the transformation catalog are kept in _container_catalog.
add_container(w, container_name, container_type, image) ==
    IF container_type \notin DOMAIN _STR_TO_CONTAINER_TYPE
    THEN [wb |-> w, status |-> "ValueError"]
    ELSE [wb |-> [w EXCEPT !._container_catalog =
                    @ \cup {Container(container_name,
                                      _STR_TO_CONTAINER_TYPE[container_type],
                                      image)}],
          status |-> "ok"]

ContainerNameInputs == {"example_container", "fake_container", "mongo:4.4"}
ContainerTypeInputs ==
    {"docker", "singularity", "shifter", "invalid", "Docker", ""}

\* The names that have a container in the catalog.
ContainerNames(w) == {c.name : c \in w._container_catalog}

\* add_container for a name that has no container yet: what the catalog
\* does with a second container of one name is left to the Pegasus library.
AddContainer(container_name, container_type) ==
    \E r \in {add_container(wb, container_name, container_type, "tar")} :
       /\ container_name \notin ContainerNames(wb)
       /\ wb' = r.wb
       /\ ret' = [NoRet EXCEPT !.op = "add_container", !.status = r.status,
                               !.container_name = container_name,
                               !.container_type = container_type]
       /\ UNCHANGED <<fs, locVars, rrVars, depVars, kvVars>>

\* str(n) for a natural number: its decimal digits.
RECURSIVE StrOfInt(_)
StrOfInt(n) ==
    IF n < 10 THEN <<n>> ELSE Append(StrOfInt(n \div 10), n % 10)

\* A limit that replaces the map by the one entry.
limit_jobs_for_category_alone(w, category, max_jobs) ==
    [w EXCEPT !._category_to_max_jobs = Put(<<>>, category, max_jobs)]

\* limit_jobs_for_category
limit_jobs_for_category(w, category, max_jobs) ==
    [w EXCEPT !._category_to_max_jobs = Put(@, category, max_jobs)]

\* f"dagman.{category}.maxjobs"
MaxJobsKey(category) == <<"dagman", category, "maxjobs">>

\* A finalization that writes no category limit.
_conf_limits_skipped(w) == w

\* _conf_limits
_conf_limits(w) ==
    [w EXCEPT !._properties =
        [key \in {MaxJobsKey(c) : c \in DOMAIN w._category_to_max_jobs}
            |-> StrOfInt(w._category_to_max_jobs[key[2]])] @@ @]

\* The keys write_dax_to_dir sets for the catalogs it has written.
CatalogProperties ==
    [key \in {<<"pegasus.catalog.site.file">>,
              <<"pegasus.catalog.replica">>,
              <<"pegasus.catalog.replica.file">>,
              <<"pegasus.catalog.transformation">>,
              <<"pegasus.catalog.transformation.file">>}
        |-> IF key \in {<<"pegasus.catalog.replica">>,
                        <<"pegasus.catalog.transformation">>}
            THEN "YAML" ELSE "path"]

\* A test that also holds when there are more checkpoints than jobs.
NoopWorkflow_at_least(num_jobs, num_ckpts) == num_jobs <= num_ckpts

\* num_jobs == num_ckpts: the DAX may create a NOOP workflow.
NoopWorkflow(num_jobs, num_ckpts) == num_jobs = num_ckpts

\* A confirmation that takes every answer but "n" for a yes.
NukeConfirmed_unless_n(answer) == answer # "n"

\* nuke == "y"
NukeConfirmed(answer) == answer = "y"

\* scripts/nuke_checkpoints.py: every ___ckpt under the directory is
\* unlinked.
nuke_checkpoints(f) == [f EXCEPT !.ckpt = {}]

\* _nuke_checkpoints_and_clear_rc: the script, then
\* self._replica_catalog.write(), which changes no field of the builder.
_nuke_checkpoints_and_clear_rc(w, f) == [wb |-> w, fs |-> nuke_checkpoints(f)]

\* What input() can return at the prompt.
AnswerInputs == {"y", "n", "Y"}

\* limit_jobs_for_category(category, max_jobs)
LimitJobsForCategory(category, max_jobs) ==
    /\ wb' = limit_jobs_for_category(wb, category, max_jobs)
    /\ fs' = [fs EXCEPT !.written = {}]
    /\ ret' = [NoRet EXCEPT !.op = "limit_jobs_for_category"]
    /\ UNCHANGED <<locVars, rrVars, depVars, kvVars>>

\* write_dax_to_dir(): output_xml_dir is the workflow directory.  The purge
\* prompt is read only when the two counts are equal; then the DAX, the
\* catalogs and the properties are written.
WriteDaxToDir(answer) ==
    LET num_jobs == Cardinality(DOMAIN wb.jobs)
        num_ckpts == Cardinality(fs.ckpt)
        prompted == NoopWorkflow(num_jobs, num_ckpts)
        nuked == prompted /\ NukeConfirmed(answer)
        n == IF nuked THEN _nuke_checkpoints_and_clear_rc(wb, fs)
             ELSE [wb |-> wb, fs |-> fs]
        w == _conf_limits([n.wb EXCEPT !._properties = CatalogProperties @@ @])
    IN /\ ~prompted => answer = "n"
       /\ wb' = w
       /\ fs' = [n.fs EXCEPT
                    !.dax = Some([jobs |-> n.wb.jobs, edges |-> n.wb.edges]),
                    !.replicas_yml = n.wb._replica_catalog,
                    !.pegasus_properties = w._properties,
                    !.written = {}]
       /\ ret' = [NoRet EXCEPT !.op = "write_dax_to_dir",
                               !.answer = IF prompted THEN answer ELSE "",
                               !.status = IF ~prompted THEN "written"
                                          ELSE IF nuked THEN "nuked"
                                          ELSE "kept"]
       /\ UNCHANGED <<locVars, rrVars, depVars, kvVars>>

(***************************************************************************)
(* Key-value transforms                                                    *)
(***************************************************************************)
\* The transforms a caller composes, each an object of its own: the add1
\* and subtract2 of the test and one that does not commute with them.
Transforms == {"add1", "subtract2", "double"}

\* A KeyValueStore: the value of its one key and its locator.
KeyValueStore(value, locator) == [value |-> value, locator |-> locator]

\* transform(input_zip, output_locator=...): the store a transform makes,
\* at the given locator or, given none, at one of its own under the input's.
ApplyTransform(transform, input_zip, output_locator) ==
    KeyValueStore(
        IF transform = "add1" THEN input_zip.value + 1
        ELSE IF transform = "subtract2" THEN input_zip.value - 2
        ELSE 2 * input_zip.value,
        IF IsNone(output_locator)
        THEN Append(input_zip.locator, transform)
        ELSE Get(output_locator))

\* One call of a transform, as the transform sees it.
TransformCall(transform, input_zip, output_locator) ==
    [transform |-> transform, input_zip |-> input_zip,
     output_locator |-> output_locator]

\* transform is final_transform, final_transform = self.transforms[-1]:
\* the object at position i is the object at the last position.
IsFinalTransform(transforms, i) == transforms[i] = transforms[Len(transforms)]

\* _ComposedKeyValueTransform.__call__ from the i-th transform on, calls
\* being the calls made so far and cur_value the store they gave.
RECURSIVE ComposedSteps(_, _, _, _, _)
ComposedSteps(transforms, i, cur_value, output_locator, calls) ==
    IF i > Len(transforms)
    THEN [status |-> "ok", value |-> Some(cur_value), calls |-> calls]
    ELSE LET step_output_locator ==
                IF IsFinalTransform(transforms, i)
                THEN output_locator ELSE None
         IN ComposedSteps(transforms, i + 1,
                ApplyTransform(transforms[i], cur_value, step_output_locator),
                output_locator,
                Append(calls, TransformCall(transforms[i], cur_value,
                                            step_output_locator)))

\* compose_key_value_store_transforms(transforms)(input_zip,
\* output_locator=...): __attrs_post_init__ raises for no transforms.
_ComposedKeyValueTransform(transforms, input_zip, output_locator) ==
    IF Len(transforms) = 0
    THEN [status |-> "RuntimeError", value |-> None, calls |-> <<>>]
    ELSE ComposedSteps(transforms, 1, input_zip, output_locator, <<>>)

NoKVRet ==
    [op |-> "none", status |-> "ok", transforms |-> <<>>,
     input_zip |-> KeyValueStore(0, <<>>), output_locator |-> None,
     value |-> None, calls |-> <<>>]

\* compose_key_value_store_transforms(transforms) called on a store
ComposeTransforms(transforms, input_zip, output_locator) ==
    \E r \in {_ComposedKeyValueTransform(transforms, input_zip,
                                         output_locator)} :
       /\ kvRet' = [op |-> "compose", status |-> r.status,
                    transforms |-> transforms, input_zip |-> input_zip,
                    output_locator |-> output_locator,
                    value |-> r.value, calls |-> r.calls]
       /\ UNCHANGED <<locVars, rrVars, wbVars, depVars>>

(***************************************************************************)
(* Specifications                                                          *)
(***************************************************************************)
\* Locator operations alone.
InitLocator ==
    /\ loc = <<>>
    /\ locRet = NoLocRet
    /\ rrBase = NoArgs
    /\ rrOver = NoArgs
    /\ rrRet = NoRRRet
    /\ wb = NewWorkflowBuilder(NoRequest)
    /\ fs = WorkflowDirectory({}, {})
    /\ ret = NoRet
    /\ dep = NoDep
    /\ depRet = NoDepRet
    /\ kvRet = NoKVRet

NextLocator ==
    \/ \E x \in LocatorInputs : LocatorConstruct(x)
    \/ \E s \in StringInputs : LocatorDivStr(s)
    \/ \E x \in LocatorInputs : LocatorDivLocator(x)
    \/ LocatorDivOther

SpecLocator == InitLocator /\ [][NextLocator]_vars

\* Dependency canonicalization alone.
InitDepends ==
    /\ loc = <<>>
    /\ locRet = NoLocRet
    /\ rrBase = NoArgs
    /\ rrOver = NoArgs
    /\ rrRet = NoRRRet
    /\ wb = NewWorkflowBuilder(NoRequest)
    /\ fs = WorkflowDirectory({}, {})
    /\ ret = NoRet
    /\ dep \in DepInputs
    /\ depRet = NoDepRet
    /\ kvRet = NoKVRet

NextDepends == Canonicalize

SpecDepends == InitDepends /\ [][NextDepends]_vars

\* Resource requests alone.
InitRequest ==
    /\ loc = <<>>
    /\ locRet = NoLocRet
    /\ rrBase \in RequestInputs
    /\ rrOver \in RequestInputs
    /\ rrRet = NoRRRet
    /\ wb = NewWorkflowBuilder(NoRequest)
    /\ fs = WorkflowDirectory({}, {})
    /\ ret = NoRet
    /\ dep = NoDep
    /\ depRet = NoDepRet
    /\ kvRet = NoKVRet

NextRequest == RRUnify \/ RRApply \/ RRUnifyApply

SpecRequest == InitRequest /\ [][NextRequest]_vars

\* The workflow builder: a new WorkflowBuilder over a workflow directory in
\* which earlier runs may have left checkpoints.
Init ==
    /\ loc = <<>>
    /\ locRet = NoLocRet
    /\ rrBase = NoArgs
    /\ rrOver = NoArgs
    /\ rrRet = NoRRRet
    /\ \E d \in DefaultRequestInputs : wb = NewWorkflowBuilder(d)
    /\ \E c \in SUBSET {directory_for(l) : l \in JobLocators} :
        fs = WorkflowDirectory(c, {})
    /\ ret = NoRet
    /\ dep = NoDep
    /\ depRet = NoDepRet
    /\ kvRet = NoKVRet

\* Plain Python jobs, bash jobs with dependencies and requests, and
\* checkpoints.
Next ==
    \/ \E job_name \in JobLocators, prog \in ProgramInputs,
          payload \in ParamsPayloadInputs :
            RunPython(job_name, prog, payload, <<>>, None,
                      None, <<<<>>, <<>>>>, None)
    \/ \E job_name \in JobLocators, command \in CommandInputs,
          depends_on \in DependsOnInputs, resource_request \in JobRequestInputs :
            RunBash(job_name, command, depends_on, resource_request, None)
    \/ \E answer \in {"y", "n"} : WriteDaxToDir(answer)

Spec == Init /\ [][Next]_vars

\* Plain Python jobs and their dependencies.
InitEdges ==
    /\ loc = <<>>
    /\ locRet = NoLocRet
    /\ rrBase = NoArgs
    /\ rrOver = NoArgs
    /\ rrRet = NoRRRet
    /\ \E d \in DefaultRequestInputs : wb = NewWorkflowBuilder(d)
    /\ fs = WorkflowDirectory({}, {})
    /\ ret = NoRet
    /\ dep = NoDep
    /\ depRet = NoDepRet
    /\ kvRet = NoKVRet

NextEdges ==
    \E job_name \in JobLocators, prog \in ProgramInputs,
       payload \in ParamsPayloadInputs \cup ArgsPayloadInputs,
       depends_on \in DependsOnInputs :
        RunPython(job_name, prog, payload, depends_on, None, None,
                  <<<<>>, <<>>>>, None)

SpecEdges == InitEdges /\ [][NextEdges]_vars

\* Jobs scheduled over a workflow directory in which an earlier run has left
\* the checkpoints of no job or of every job.
InitCheckpoints ==
    /\ loc = <<>>
    /\ locRet = NoLocRet
    /\ rrBase = NoArgs
    /\ rrOver = NoArgs
    /\ rrRet = NoRRRet
    /\ \E d \in DefaultRequestInputs : wb = NewWorkflowBuilder(d)
    /\ \E c \in {{}, {directory_for(l) : l \in JobLocators}} :
        fs = WorkflowDirectory(c, {})
    /\ ret = NoRet
    /\ dep = NoDep
    /\ depRet = NoDepRet
    /\ kvRet = NoKVRet

NextCheckpoints ==
    \E job_name \in JobLocators, prog \in ProgramInputs,
       payload \in ParamsPayloadInputs \cup ArgsPayloadInputs,
       depends_on \in {d \in DependsOnInputs : Len(d) < 2} :
        RunPython(job_name, prog, payload, depends_on, None, None,
                  <<<<>>, <<>>>>, None)

SpecCheckpoints == InitCheckpoints /\ [][NextCheckpoints]_vars

\* Jobs, category limits and finalization over a workflow directory in
\* which earlier runs may have left checkpoints.
InitFinalize ==
    /\ loc = <<>>
    /\ locRet = NoLocRet
    /\ rrBase = NoArgs
    /\ rrOver = NoArgs
    /\ rrRet = NoRRRet
    /\ \E d \in DefaultRequestInputs : wb = NewWorkflowBuilder(d)
    /\ \E c \in SUBSET {directory_for(l) : l \in JobLocators} :
        fs = WorkflowDirectory(c, {})
    /\ ret = NoRet
    /\ dep = NoDep
    /\ depRet = NoDepRet
    /\ kvRet = NoKVRet

LimitCategoryInputs == {"gaia", "arithmetic"}
LimitInputs == {1, 10}

NextFinalize ==
    \/ \E job_name \in JobLocators, prog \in ProgramInputs,
          payload \in ParamsPayloadInputs :
            RunPython(job_name, prog, payload, <<>>, None, None,
                      <<<<>>, <<>>>>, None)
    \/ \E category \in LimitCategoryInputs, max_jobs \in LimitInputs :
            LimitJobsForCategory(category, max_jobs)
    \/ \E answer \in AnswerInputs : WriteDaxToDir(answer)

SpecFinalize == InitFinalize /\ [][NextFinalize]_vars

\* Jobs with and without a category and a resource request of their own.
InitCategories ==
    /\ loc = <<>>
    /\ locRet = NoLocRet
    /\ rrBase = NoArgs
    /\ rrOver = NoArgs
    /\ rrRet = NoRRRet
    /\ \E d \in DefaultRequestInputs : wb = NewWorkflowBuilder(d)
    /\ fs = WorkflowDirectory({}, {})
    /\ ret = NoRet
    /\ dep = NoDep
    /\ depRet = NoDepRet
    /\ kvRet = NoKVRet

NextCategories ==
    \E job_name \in JobLocators, prog \in ProgramInputs,
       payload \in ParamsPayloadInputs,
       resource_request \in CategoryRequestInputs,
       category \in CategoryInputs :
        RunPython(job_name, prog, payload, <<>>, resource_request, None,
                  <<<<>>, <<>>>>, category)

SpecCategories == InitCategories /\ [][NextCategories]_vars

\* Plain and containerized Python jobs, with and without files, in a fresh
\* workflow directory.
InitContainer ==
    /\ loc = <<>>
    /\ locRet = NoLocRet
    /\ rrBase = NoArgs
    /\ rrOver = NoArgs
    /\ rrRet = NoRRRet
    /\ \E d \in DefaultRequestInputs : wb = NewWorkflowBuilder(d)
    /\ fs = WorkflowDirectory({}, {})
    /\ ret = NoRet
    /\ dep = NoDep
    /\ depRet = NoDepRet
    /\ kvRet = NoKVRet

NextContainer ==
    \E job_name \in JobLocators, prog \in ProgramInputs,
       payload \in PayloadInputs, container \in ContainerInputs,
       io \in FileListInputs :
        RunPython(job_name, prog, payload, <<>>, None, container, io, None)

SpecContainer == InitContainer /\ [][NextContainer]_vars

\* Docker services started and stopped over a workflow directory that may
\* hold the scripts of an earlier run.
InitService ==
    /\ loc = <<>>
    /\ locRet = NoLocRet
    /\ rrBase = NoArgs
    /\ rrOver = NoArgs
    /\ rrRet = NoRRRet
    /\ \E d \in DefaultRequestInputs : wb = NewWorkflowBuilder(d)
    /\ \E s \in SUBSET ServiceDirectories : fs = WorkflowDirectory({}, s)
    /\ ret = NoRet
    /\ dep = NoDep
    /\ depRet = NoDepRet
    /\ kvRet = NoKVRet

NextService ==
    \E container \in ServiceContainerInputs, depends_on \in DependsOnInputs,
       resource_request \in JobRequestInputs :
        \/ StartDockerAsService(container, depends_on, resource_request)
        \/ StopDockerAsService(container, depends_on, resource_request)

SpecService == InitService /\ [][NextService]_vars

\* Containers of every type string added to a new builder.
InitAddContainer ==
    /\ loc = <<>>
    /\ locRet = NoLocRet
    /\ rrBase = NoArgs
    /\ rrOver = NoArgs
    /\ rrRet = NoRRRet
    /\ \E d \in DefaultRequestInputs : wb = NewWorkflowBuilder(d)
    /\ fs = WorkflowDirectory({}, {})
    /\ ret = NoRet
    /\ dep = NoDep
    /\ depRet = NoDepRet
    /\ kvRet = NoKVRet

NextAddContainer ==
    \E container_name \in ContainerNameInputs,
       container_type \in ContainerTypeInputs :
        AddContainer(container_name, container_type)

SpecAddContainer == InitAddContainer /\ [][NextAddContainer]_vars

\* _canonicalize_depends_on on supported and unsupported values.
InitDependsErrors ==
    /\ loc = <<>>
    /\ locRet = NoLocRet
    /\ rrBase = NoArgs
    /\ rrOver = NoArgs
    /\ rrRet = NoRRRet
    /\ wb = NewWorkflowBuilder(NoRequest)
    /\ fs = WorkflowDirectory({}, {})
    /\ ret = NoRet
    /\ dep \in DepInputs \cup DepUnsupportedInputs
    /\ depRet = NoDepRet
    /\ kvRet = NoKVRet

NextDependsErrors == Canonicalize

SpecDependsErrors == InitDependsErrors /\ [][NextDependsErrors]_vars

\* Containerized Python jobs and the files staged for them.
InitStaging ==
    /\ loc = <<>>
    /\ locRet = NoLocRet
    /\ rrBase = NoArgs
    /\ rrOver = NoArgs
    /\ rrRet = NoRRRet
    /\ \E d \in DefaultRequestInputs : wb = NewWorkflowBuilder(d)
    /\ fs = WorkflowDirectory({}, {})
    /\ ret = NoRet
    /\ dep = NoDep
    /\ depRet = NoDepRet
    /\ kvRet = NoKVRet

NextStaging ==
    \E job_name \in JobLocators, prog \in ProgramInputs,
       payload \in StagingPayloadInputs,
       container \in ContainerInputs \ {None},
       io \in StagingFileListInputs :
        RunPython(job_name, prog, payload, <<>>, None, container, io, None)

SpecStaging == InitStaging /\ [][NextStaging]_vars

\* Containerized Python jobs with pre-job and post-job bash of the caller.
\* A str is the sequence of its characters.
UserBashInputs == {<<>>, <<"x">>, <<"l", "s">>}

NextUserBash ==
    \E job_name \in JobLocators, prog \in ProgramInputs,
       payload \in StagingPayloadInputs,
       container \in ContainerInputs \ {None},
       io \in {<<<<>>, <<>>>>, <<<<PathF1>>, <<PathG>>>>},
       pre \in UserBashInputs, post \in UserBashInputs :
        RunPythonJob(job_name, prog, payload, <<>>, None, container, io,
                     None, pre, post)

SpecUserBash == InitStaging /\ [][NextUserBash]_vars

\* Files made and asked for by the caller next to the checkpoint files of
\* scheduled jobs.
LfnInputs ==
    {<<"a">>} \cup {CheckpointLfn(l) : l \in JobLocators}
PfnInputs == {<<"/nas/one/a">>, <<"/nas/two/a">>}

NextFiles ==
    \/ \E lfn \in LfnInputs, pfn \in PfnInputs, add \in BOOLEAN :
            CreateFile(lfn, pfn, add)
    \/ \E lfn \in LfnInputs : GetFile(lfn)
    \/ \E job_name \in JobLocators :
            RunBash(job_name, <<"echo">>, <<>>, None, None)

SpecFiles == InitStaging /\ [][NextFiles]_vars

\* Composed key-value transforms alone.
MaxTransforms == 3
TransformListInputs ==
    UNION {[1..n -> Transforms] : n \in 0..MaxTransforms}
KeyValueStoreInputs ==
    {KeyValueStore(5, <<"in">>), KeyValueStore(10, <<"in">>)}
OutputLocatorInputs == {None, Some(<<"out">>)}

NextKeyValue ==
    \E transforms \in TransformListInputs,
       input_zip \in KeyValueStoreInputs,
       output_locator \in OutputLocatorInputs :
        ComposeTransforms(transforms, input_zip, output_locator)

SpecKeyValue == InitStaging /\ [][NextKeyValue]_vars

\* Bash jobs alone, with command lists that share their commands.
InitBash ==
    /\ loc = <<>>
    /\ locRet = NoLocRet
    /\ rrBase = NoArgs
    /\ rrOver = NoArgs
    /\ rrRet = NoRRRet
    /\ \E d \in DefaultRequestInputs : wb = NewWorkflowBuilder(d)
    /\ fs = WorkflowDirectory({}, {})
    /\ ret = NoRet
    /\ dep = NoDep
    /\ depRet = NoDepRet
    /\ kvRet = NoKVRet

NextBash ==
    \E job_name \in JobLocators, command \in CommandListInputs,
       depends_on \in DependsOnInputs :
        RunBash(job_name, command, depends_on, None, None)

SpecBash == InitBash /\ [][NextBash]_vars

\* ---- the generated run scripts ----
\* One line of a generated script.  part tells what the line is for: the
\* shell "setup", the "cd" to the working directory, a "command" of the job
\* or the "checkpoint".
Line(part, cmd, arg) == [part |-> part, cmd |-> cmd, arg |-> arg]

\* run_bash: cd job_dir, the commands, touch ckpt_path, joined by newlines
\* and written to script.sh, which /usr/bin/bash is given as its argument.
BashScript(job_name, command) ==
    <<Line("cd", "cd", directory_for(job_name))>>
        \o [i \in 1..Len(command) |-> Line("command", "sh", command[i])]
        \o <<Line("checkpoint", "touch", directory_for(job_name))>>

\* CONDA_SCRIPT, with PYTHON_JOB as its python_job and empty pre_job and
\* post_job, as _run_python_job has it written.
CONDA_SCRIPT(job_name) ==
    <<Line("setup", "set -e", ""),
      Line("setup", "set -o pipefail", ""),
      Line("setup", "export PS1", ""),
      Line("setup", "conda_lines", ""),
      Line("setup", "spack_lines", ""),
      Line("cd", "cd", directory_for(job_name)),
      Line("command", "", "pre_job"),
      Line("command", "echo", "which python"),
      Line("command", "echo", "python"),
      Line("command", "python | tee", "python"),
      Line("command", "", "post_job"),
      Line("checkpoint", "echo", directory_for(job_name)),
      Line("checkpoint", "touch", directory_for(job_name))>>

\* DOCKER_SCRIPT, with DOCKER_JOB as its docker_job and the staging commands
\* of _run_python_in_container as its pre_job and post_job.
DOCKER_SCRIPT(job_name, pre_job, post_job) ==
    <<Line("setup", "set -e", ""),
      Line("setup", "set -o pipefail", ""),
      Line("setup", "spack_lines", ""),
      Line("cd", "cd", directory_for(job_name))>>
        \o [i \in 1..Len(pre_job) |->
                Line("command", pre_job[i].cmd, "pre_job")]
        \o <<Line("command", "", "docker_job"),
             Line("command", "echo", "docker load"),
             Line("command", "docker load", "docker_job"),
             Line("command", "echo", "docker run"),
             Line("command", "docker run", "docker_job")>>
        \o [i \in 1..Len(post_job) |->
                Line("command", post_job[i].cmd, "post_job")]
        \o <<Line("checkpoint", "echo", directory_for(job_name)),
             Line("checkpoint", "touch", directory_for(job_name))>>

\* The shell running a script: an option is on at line i when a line before
\* i has set it.
OptionOn(lines, option, i) == \E j \in 1..(i - 1) : lines[j].cmd = option

\* failing is the set of lines whose command (the first command of a
\* pipeline) exits with an error.  The status of a pipeline is that of its
\* last command, tee, unless pipefail is on.
LineFails(lines, failing, i) ==
    /\ i \in failing
    /\ lines[i].cmd = "python | tee" => OptionOn(lines, "set -o pipefail", i)

\* The shell goes on after a failed line unless errexit (set -e) is on.
LineIsRun(lines, failing, i) ==
    \A j \in 1..(i - 1) :
        LineFails(lines, failing, j) => ~OptionOn(lines, "set -e", j)

(***************************************************************************)
(* Properties                                                              *)
(***************************************************************************)
\* The last call returned a DependencyNode.
Returned(r) == r.status \in {"scheduled", "duplicate"}

\* The elements of a list.
Elements(items) == {items[i] : i \in 1..Len(items)}

\* C1: idempotent scheduling.  Once a schedule call with (P, A) has returned
\* a node, the next call with the same (P, A), plain or containerized and
\* under another locator, returns that same node and adds no node to the
\* graph.
C1_IdempotentScheduling ==
    [][(/\ ret.op = "run_python" /\ Returned(ret)
        /\ ret'.op = "run_python" /\ Returned(ret')
        /\ ret'.prog = ret.prog /\ ret'.payload = ret.payload
        /\ ret'.job_name # ret.job_name)
       => (/\ ret'.node = ret.node
           /\ DOMAIN wb'.jobs = DOMAIN wb.jobs)]_vars

\* C2: signature sensitivity.  Two schedule calls in a row with the same
\* program and different argument payloads return two distinct nodes, also
\* when both are containerized under one locator and one container.
C2_SignatureSensitivity ==
    [][(/\ ret.op = "run_python" /\ Returned(ret)
        /\ ret'.op = "run_python" /\ Returned(ret')
        /\ ret'.prog = ret.prog /\ ret'.payload # ret.payload)
       => (/\ ret'.node # ret.node
           /\ ret.node.job \in DOMAIN wb'.jobs
           /\ ret'.node.job \in DOMAIN wb'.jobs)]_vars

\* C3: a schedule call recognised as a duplicate has written no run script
\* and no parameter file.
C3_DuplicateHasNoSideEffects ==
    ret.status = "duplicate" => fs.written = {}

\* C4: checkpoint replay.  After a new bash job was scheduled at locator L
\* (the kind of job of which several can share a locator), L/___ckpt has a
\* replica in the catalog if and only if the sentinel file exists in L's
\* working directory.
C4_CheckpointReplay ==
    (ret.op = "run_bash" /\ ret.status = "scheduled")
        => (CheckpointLfn(ret.job_name) \in wb._replica_catalog
                <=> directory_for(ret.job_name) \in fs.ckpt)

\* C5: unify precedence.  base.unify(override) for an override on which the
\* caller set nothing is a request equal to base, base's wall-time included.
C5_UnifyPrecedence ==
    (rrRet.op = "unify" /\ rrRet.status = "ok" /\ rrOver = NoArgs)
        => rrRet.req = NewSlurmResourceRequest(rrBase)

\* C6: walltime validation.  Applying a request fails with the walltime
\* error exactly when its job time is strictly greater than 120 minutes on
\* scavenge, 720 on ephemeral and 1440 on any other partition.
C6_WalltimeValidation ==
    rrRet.op \in {"apply", "unify_apply"}
        => (rrRet.status = "WalltimeExceeded"
              <=> /\ ~IsNone(rrRet.req.partition)
                  /\ Get(rrRet.req.job_time_in_minutes) >
                        (IF Get(rrRet.req.partition).name = "scavenge"
                         THEN 120
                         ELSE IF Get(rrRet.req.partition).name = "ephemeral"
                         THEN 720
                         ELSE 1440))

\* A job time equal to the partition's maximum was accepted.
C6_Witness ==
    /\ rrRet.op = "apply"
    /\ rrRet.status = "ok"
    /\ Get(rrRet.req.partition).name = "scavenge"
    /\ Get(rrRet.req.job_time_in_minutes) = 120

\* C7: edge wiring.  A call that schedules a new job with canonicalized
\* dependencies D adds exactly the edges from each parent in D to the new
\* node, and the new job's inputs are the declared outputs of the parents;
\* a second job that depends on the first gives 2 nodes and the one edge
\* from the first to the second.
C7_EdgeWiring ==
    [][(/\ ret'.op = "run_python" /\ ret'.status = "scheduled"
        /\ Cardinality(DOMAIN wb'.jobs) = Cardinality(DOMAIN wb.jobs) + 1)
       => LET new == ret'.node.job
              D == Elements(ret'.depends_on)
          IN /\ new \notin DOMAIN wb.jobs
             /\ wb'.edges = wb.edges \cup {<<parent.job, new>> : parent \in D}
             /\ \A edge \in wb.edges : edge[2] # new
             /\ wb'.jobs[new].inputs =
                    UNION {wb.jobs[parent.job].outputs : parent \in D}
             /\ (DOMAIN wb.jobs = {1} /\ Cardinality(D) = 1)
                    => (DOMAIN wb'.jobs = {1, 2} /\ wb'.edges = {<<1, 2>>})
      ]_vars

\* Two jobs, the second scheduled with the first as its only dependency.
C7_Witness ==
    /\ ret.op = "run_python"
    /\ ret.status = "scheduled"
    /\ DOMAIN wb.jobs = {1, 2}
    /\ ret.node.job = 2
    /\ Cardinality(Elements(ret.depends_on)) = 1
    /\ wb.edges = {<<1, 2>>}
    /\ wb.jobs[2].inputs = wb.jobs[1].outputs
    /\ wb.jobs[2].inputs # {}

\* C8: container file collision.  Every containerized call in which two of
\* the input and output paths have the same base name fails with the
\* duplicate-file-name error.
C8_ContainerFileCollision ==
    (ret.op = "run_python" /\ ret.container /\ ret.same_base_name)
        => ret.status = "DuplicateFileName"

\* C9: no segment of a Locator contains "=", and every construction or
\* composition whose argument has "=" in it fails with ValueError.
C9_NoEqualsSegment ==
    /\ \A i \in 1..Len(loc) : ~HasChar(loc[i], "=")
    /\ (locRet.op \in {"new", "div"} /\ locRet.argEq)
            => locRet.status = "ValueError"

\* A non-empty Locator was composed with a string containing "=", and the
\* composition failed.
C9_Witness ==
    /\ Len(loc) > 0
    /\ locRet.op = "div"
    /\ locRet.argtype = "str"
    /\ locRet.argEq
    /\ locRet.status = "ValueError"

\* C10: Locator composition.  L / s for a string s is the Locator L /
\* Locator(s), whose segments are L's followed by those of Locator(s);
\* composing with a value of another type fails.
C10_LocatorComposition ==
    [][/\ \A s \in StringInputs :
            (LocatorDivStr(s) /\ locRet'.status = "ok")
                => loc' = __truediv__(
                            loc, LocVal(NewLocator(StrVal(s)).parts)).parts
       /\ (locRet'.op = "div" /\ locRet'.argtype = "int")
            => locRet'.status = "RuntimeError"]_vars

\* A collection whose elements are nodes, Artifacts, or collections of
\* nodes and Artifacts.
NestedAtMostTwoLevels(d) ==
    /\ d.kind = "list"
    /\ \A i \in 1..Len(d.items) :
        d.items[i].kind = "list"
            => \A j \in 1..Len(d.items[i].items) :
                    d.items[i].items[j].kind # "list"

\* C11: dependency canonicalization.  A DependencyNode gives the singleton
\* of itself, an Artifact its depends_on set, a collection nested at most
\* two levels the union of the canonicalizations of its elements; every
\* result is flat and duplicate-free, all its members are DependencyNodes,
\* and an empty collection gives the empty set.
C11_Canonicalization ==
    depRet.op = "canonicalize"
        => /\ dep.kind = "node"
                => depRet.status = "ok" /\ depRet.value = <<dep.node>>
           /\ dep.kind = "artifact"
                => /\ depRet.status = "ok"
                   /\ Elements(depRet.value) =
                        {dep.items[i].node : i \in 1..Len(dep.items)}
           /\ NestedAtMostTwoLevels(dep)
                => /\ depRet.status = "ok"
                   /\ Elements(depRet.value) =
                        UNION {Elements(_canonicalize_depends_on(dep.items[i])) :
                                i \in 1..Len(dep.items)}
           /\ \A i, j \in 1..Len(depRet.value) :
                depRet.value[i] = depRet.value[j] => i = j
           /\ Elements(depRet.value) \subseteq DepNodeInputs
           /\ dep = DepList(<<>>) => depRet.value = <<>>

\* A list of a list of two nodes and an Artifact that shares a node with
\* it was canonicalized to three nodes.
C11_Witness ==
    /\ depRet.op = "canonicalize"
    /\ depRet.status = "ok"
    /\ dep.kind = "list"
    /\ Len(dep.items) = 2
    /\ dep.items[1].kind = "list"
    /\ Len(dep.items[1].items) = 2
    /\ dep.items[2].kind = "artifact"
    /\ Len(depRet.value) = 3

\* The partition of the request of the last call unified over the builder's
\* default: the call's own partition if it names one, else the default's.
ResolvedPartitionName ==
    IF ~IsNone(ret.resource_request)
       /\ ~IsNone(Get(ret.resource_request).partition)
    THEN Get(Get(ret.resource_request).partition).name
    ELSE Get(wb.default_resource_request.partition).name

\* C12: job category tagging.  A job scheduled with an explicit category
\* carries that category and no other; a job scheduled without one carries
\* the name of the partition of its resolved resource request.
C12_CategoryTagging ==
    (ret.op \in {"run_python", "run_bash"} /\ ret.status = "scheduled")
        => wb.jobs[ret.node.job].profiles.category =
                IF ~IsNone(ret.category)
                THEN ret.category
                ELSE Some(ResolvedPartitionName)

\* A job with the category "arithmetic" given on a call that also named
\* the ephemeral partition, and after it a job without a category whose
\* request named the ephemeral partition.
C12_Witness ==
    /\ ret.status = "scheduled"
    /\ DOMAIN wb.jobs = {1, 2}
    /\ ret.node.job = 2
    /\ IsNone(ret.category)
    /\ wb.jobs[2].profiles.category = Some(EPHEMERAL)
    /\ wb.jobs[1].profiles.category = Some("arithmetic")
    /\ Get(wb.jobs[1].profiles.glite).partition = EPHEMERAL

\* The maxjobs lines of the emitted pegasus.properties.
MaxJobsLines ==
    {key \in DOMAIN fs.pegasus_properties :
        Len(key) = 3 /\ key[3] = "maxjobs"}

\* C13: category-limit emission.  The properties written at finalize time
\* hold a line dagman.<category>.maxjobs = N for exactly the categories
\* declared through limit_jobs_for_category, each with the N declared last;
\* a category that jobs carry but that was never declared has no line, and
\* with no declaration there is no maxjobs line.
C13_CategoryLimitEmission ==
    ret.op = "write_dax_to_dir"
        => /\ MaxJobsLines =
                {<<"dagman", c, "maxjobs">> :
                    c \in DOMAIN wb._category_to_max_jobs}
           /\ \A c \in DOMAIN wb._category_to_max_jobs :
                fs.pegasus_properties[<<"dagman", c, "maxjobs">>] =
                    StrOfInt(wb._category_to_max_jobs[c])

\* The properties were written with a limit of 10 for "arithmetic" alone,
\* while a job of the graph carries the undeclared category "gaia".
C13_Witness ==
    /\ ret.op = "write_dax_to_dir"
    /\ \E id \in DOMAIN wb.jobs : wb.jobs[id].profiles.category = Some("gaia")
    /\ MaxJobsLines = {<<"dagman", "arithmetic", "maxjobs">>}
    /\ fs.pegasus_properties[<<"dagman", "arithmetic", "maxjobs">>] = <<1, 0>>

\* C14: no-op heuristic.  write_dax_to_dir asks for the purge confirmation
\* if and only if the number of jobs of the graph equals the number of
\* ___ckpt sentinels under the directory when it is called.
C14_NoopHeuristic ==
    [][ret'.op = "write_dax_to_dir"
        => (ret'.status \in {"nuked", "kept"}
                <=> Cardinality(DOMAIN wb.jobs) = Cardinality(fs.ckpt))]_vars

\* Two jobs were scheduled at two locators whose sentinels both existed,
\* and finalization asked for the confirmation.
C14_Witness ==
    /\ ret.op = "write_dax_to_dir"
    /\ ret.status = "kept"
    /\ Cardinality(DOMAIN wb.jobs) = 2
    /\ Cardinality(fs.ckpt) = 2
    /\ \A l \in JobLocators : CheckpointLfn(l) \in wb._replica_catalog

\* C15: purge on confirmation.  When the confirmation was answered "y", no
\* sentinel is left under the directory and the replica catalog that was
\* written names no checkpoint.
C15_PurgeOnConfirmation ==
    (ret.op = "write_dax_to_dir" /\ ret.status = "nuked")
        => /\ fs.ckpt = {}
           /\ \A l \in JobLocators : CheckpointLfn(l) \notin fs.replicas_yml

\* C16: declining the purge.  When the confirmation was answered with
\* anything but "y", finalization deletes no sentinel and changes no replica
\* registration, no job, no edge and no entry of the signature cache.
C16_DecliningThePurge ==
    [][(/\ ret'.op = "write_dax_to_dir"
        /\ ret'.status \in {"nuked", "kept"}
        /\ ret'.answer # "y")
       => (/\ fs'.ckpt = fs.ckpt
           /\ wb'._replica_catalog = wb._replica_catalog
           /\ wb'.jobs = wb.jobs
           /\ wb'.edges = wb.edges
           /\ wb'._signature_to_job = wb._signature_to_job)]_vars

\* The confirmation was answered "Y" while a sentinel and its replica
\* registration existed, and both are still there.
C16_Witness ==
    /\ ret.op = "write_dax_to_dir"
    /\ ret.status = "kept"
    /\ ret.answer = "Y"
    /\ fs.ckpt # {}
    /\ wb._replica_catalog # {}
    /\ fs.replicas_yml = wb._replica_catalog

\* C17 as stated: a job whose checkpoint exists when it is scheduled is not
\* added to the graph that becomes the DAX.
C17_CheckpointedJobNotAdded ==
    [][(/\ ret'.op = "run_python"
        /\ directory_for(ret'.job_name) \in fs.ckpt)
       => DOMAIN wb'.jobs = DOMAIN wb.jobs]_vars

\* C17, amended: a job whose checkpoint exists when it is scheduled is
\* added to the graph like any other, with the checkpoint file as its
\* declared output; and unless a file of that logical name was created
\* earlier in the session, the checkpoint is registered in the replica
\* catalog.
C17_CheckpointedJobIsAdded ==
    [][(/\ ret'.op = "run_python" /\ ret'.status = "scheduled"
        /\ directory_for(ret'.job_name) \in fs.ckpt)
       => LET lfn == CheckpointLfn(ret'.job_name)
              id == ret'.node.job
          IN /\ id \notin DOMAIN wb.jobs
             /\ DOMAIN wb'.jobs = DOMAIN wb.jobs \cup {id}
             /\ lfn \in wb'.jobs[id].outputs
             /\ lfn \notin wb._lfn_to_file => lfn \in wb'._replica_catalog
      ]_vars

\* A job was scheduled at a locator whose sentinel exists: it is in the
\* graph and its checkpoint is in the replica catalog.
C17_Witness ==
    /\ ret.op = "run_python"
    /\ ret.status = "scheduled"
    /\ directory_for(ret.job_name) \in fs.ckpt
    /\ ret.node.job \in DOMAIN wb.jobs
    /\ CheckpointLfn(ret.job_name) \in wb.jobs[ret.node.job].outputs
    /\ CheckpointLfn(ret.job_name) \in wb._replica_catalog

\* The graph has been emitted by write_dax_to_dir.
Finalized == ~IsNone(fs.dax)

\* C19: finalization closes the graph.  Once write_dax_to_dir has emitted
\* the graph, every further schedule call is rejected and adds no node and
\* no edge.
C19_FinalizationClosesGraph ==
    [][(Finalized /\ ret'.op \in {"run_python", "run_bash"})
       => (/\ ~Returned(ret')
           /\ DOMAIN wb'.jobs = DOMAIN wb.jobs
           /\ wb'.edges = wb.edges)]_vars

\* C18: a stop_docker_as_service call for a container whose start job is not
\* among the jobs scheduled by this builder has failed with RuntimeError and
\* has returned no node.
C18_StaleServiceReference ==
    \A container \in ServiceContainerInputs :
        (/\ ret.op = "stop_docker_as_service"
         /\ container_loc(container).status = "ok"
         /\ ret.job_name = ServiceJobName(container, STOP)
         /\ StartSignature(container) \notin DOMAIN wb._signature_to_job)
            => (ret.status = "RuntimeError" /\ ret.node = NoNode)

\* C20: an add_container call with a type string other than 'docker',
\* 'singularity' and 'shifter' fails with ValueError and leaves the catalog
\* as it was; a call with one of the three succeeds and the catalog gains
\* a container of the given name and of that type.
C20_ContainerTypeValidation ==
    [][ret'.op = "add_container" =>
        IF ret'.container_type \in {"docker", "singularity", "shifter"}
        THEN /\ ret'.status = "ok"
             /\ \E c \in wb'._container_catalog \ wb._container_catalog :
                    /\ c.name = ret'.container_name
                    /\ c.container_type =
                        (IF ret'.container_type = "docker" THEN "DOCKER"
                         ELSE IF ret'.container_type = "singularity"
                         THEN "SINGULARITY" ELSE "SHIFTER")
             /\ Cardinality(wb'._container_catalog) =
                    Cardinality(wb._container_catalog) + 1
        ELSE /\ ret'.status = "ValueError"
             /\ wb'._container_catalog = wb._container_catalog]_vars

\* A shifter container is in the catalog and the last call, with a type
\* string that differs from a valid one by case only, has failed.
C20_Witness ==
    /\ ret.op = "add_container"
    /\ ret.container_type = "Docker"
    /\ ret.status = "ValueError"
    /\ \E c \in wb._container_catalog : c.container_type = "SHIFTER"

\* C21 as stated: after a schedule call that returned a node, new or cached,
\* the graph has an edge from every node of the canonicalized depends_on of
\* that call to the returned node.
C21_DependenciesOnEveryReturnedNode ==
    (ret.op = "run_python" /\ ret.status \in {"scheduled", "duplicate"})
        => \A parent \in Elements(ret.depends_on) :
                <<parent.job, ret.node.job>> \in wb.edges

\* C21 amended: a schedule call that returns a new node leaves the graph
\* with an edge from every node of its canonicalized depends_on to that node;
\* a call recognised as a duplicate returns the node cached before the call
\* and leaves the edges as they were, whatever its depends_on.
C21_DependenciesOnNewNodes ==
    [][ret'.op = "run_python" =>
        /\ ret'.status = "scheduled" =>
            /\ ret'.node.job \notin DOMAIN wb.jobs
            /\ \A parent \in Elements(ret'.depends_on) :
                    <<parent.job, ret'.node.job>> \in wb'.edges
        /\ ret'.status = "duplicate" =>
            /\ ret'.node \in Nodes
            /\ wb'.edges = wb.edges
      ]_vars

\* A call with a parent was recognised as a duplicate of a job that has no
\* edge from that parent, in a graph in which a new node was wired to its
\* parent.
C21_Witness ==
    /\ ret.op = "run_python"
    /\ ret.status = "duplicate"
    /\ \E parent \in Elements(ret.depends_on) :
            <<parent.job, ret.node.job>> \notin wb.edges
    /\ \E edge \in wb.edges : TRUE

\* C22: a scheduling call that raised leaves the graph nodes, the edges, the
\* cache of signatures and the replica registrations as they were before the
\* call, and the graph has as many nodes as the cache has signatures.
C22_FailedSchedulingIsAtomic ==
    [][(/\ ret'.op \in {"run_python", "run_bash"}
        /\ ret'.status \notin {"scheduled", "duplicate"})
       => /\ wb'.jobs = wb.jobs
          /\ wb'.edges = wb.edges
          /\ wb'._signature_to_job = wb._signature_to_job
          /\ wb'._replica_catalog = wb._replica_catalog
          /\ Cardinality(DOMAIN wb.jobs)
                = Cardinality(DOMAIN wb._signature_to_job)
             => Cardinality(DOMAIN wb'.jobs)
                    = Cardinality(DOMAIN wb'._signature_to_job)
      ]_vars

\* C23: when neither the default request nor the job's request was given a
\* job time, the job time of the unified request is at most the maximum
\* walltime of its partition and applying it does not fail with the walltime
\* error.
C23_DefaultWalltimeIsValid ==
    (/\ rrRet.op = "unify_apply"
     /\ IsNone(rrBase.job_time_in_minutes)
     /\ IsNone(rrOver.job_time_in_minutes))
        => /\ rrRet.status # "WalltimeExceeded"
           /\ Get(rrRet.req.job_time_in_minutes)
                <= Get(rrRet.req.partition).max_walltime

\* The minutes a text H:MM:00 stands for, from the hours and the two digits
\* of the minutes field.
MinutesOfSlurmTime(time) == time[1] * 60 + time[2][1] * 10 + time[2][2]

\* C25: the time written into the resource profile of a job is H:MM:00 with
\* H = m div 60 and MM the two digits of m mod 60, so that it stands for the
\* m minutes of the request.
C25_WalltimeFormatting ==
    (rrRet.op \in {"apply", "unify_apply"} /\ rrRet.status = "ok")
        => LET m == Get(rrRet.req.job_time_in_minutes)
               time == Get(rrRet.profiles.glite).time
           IN /\ time[1] = m \div 60
              /\ time[2] = <<(m % 60) \div 10, (m % 60) % 10>>
              /\ MinutesOfSlurmTime(time) = m

\* C26: a request that has a partition and a job time within its walltime
\* fails with the inconsistent-node error exactly when both node options are
\* set and the single-node pin is one of the nodes of the comma-separated
\* exclusion list.
C26_NodeConstraintValidation ==
    (/\ rrRet.op \in {"apply", "unify_apply"}
     /\ rrRet.status \notin {"MissingPartition", "WalltimeExceeded"})
        => (rrRet.status = "InconsistentNodes"
              <=> /\ ~IsNone(rrRet.req.exclude_list)
                  /\ ~IsNone(rrRet.req.run_on_single_node)
                  /\ \E i \in 1..Len(Split(Get(rrRet.req.exclude_list), ",")) :
                        Split(Get(rrRet.req.exclude_list), ",")[i]
                            = Get(rrRet.req.run_on_single_node))

\* d is, or holds at any depth, a value that is no node, Artifact or
\* collection.
RECURSIVE ContainsUnsupported(_)
ContainsUnsupported(d) ==
    \/ d.kind = "other"
    \/ d.kind = "list"
        /\ \E i \in 1..Len(d.items) : ContainsUnsupported(d.items[i])

\* d has a collection inside a collection inside a collection.
NestedDeeperThanTwo(d) ==
    /\ d.kind = "list"
    /\ \E i \in 1..Len(d.items) :
        /\ d.items[i].kind = "list"
        /\ \E j \in 1..Len(d.items[i].items) :
                d.items[i].items[j].kind = "list"

\* C27: _canonicalize_depends_on fails with the dependency specification
\* error (RuntimeError) for every value that holds something that is no
\* node, Artifact or collection and for every value with collections nested
\* more than two deep, and returns for every other value.
C27_CanonicalizationErrors ==
    depRet.op = "canonicalize"
        => IF ContainsUnsupported(dep) \/ NestedDeeperThanTwo(dep)
           THEN depRet.status = "RuntimeError"
           ELSE depRet.status = "ok"

\* C24: a containerized call that is no duplicate and names an input or
\* output file with the base name ____params.params has failed with the
\* duplicate-file-name error.
C24_ReservedParameterFileName ==
    (/\ ret.op = "run_python" /\ ret.container
     /\ ret.status # "duplicate"
     /\ \E file \in Elements(ret.input_files \o ret.output_files) :
            file.name = PARAMS_FILE_NAME)
        => ret.status = "DuplicateFileName"

\* v names, as a Path or as text, the absolute host path of a file declared
\* in files.
NamesDeclaredFile(v, files) ==
    v.dir # "" /\ Path(v.dir, v.name) \in Elements(files)

\* C28: in a scheduled containerized job every parameter value and every
\* command-line token that equals the absolute host path of a declared input
\* or output file is replaced by mountRoot/basename, and every other value
\* or token is passed through unchanged.
C28_ContainerPathRewriting ==
    (ret.op = "run_python" /\ ret.container /\ ret.status = "scheduled")
        => LET files == ret.input_files \o ret.output_files
               Rewritten(v) ==
                    IF NamesDeclaredFile(v, files)
                    THEN PathString(Path(DOCKER_MOUNT_ROOT, v.name))
                    ELSE v
           IN /\ ret.payload.mode = "params"
                    => \A key \in DOMAIN ret.payload.params :
                            ret.script.params[key]
                                = Rewritten(ret.payload.params[key])
              /\ ret.payload.mode = "args"
                    => /\ Len(ret.script.python_args) = Len(ret.payload.args)
                       /\ \A i \in 1..Len(ret.payload.args) :
                            ret.script.python_args[i]
                                = Rewritten(ret.payload.args[i])

\* The indices of a list of commands at which cmd stands.
IndicesOf(cmds, cmd) == {i \in 1..Len(cmds) : cmds[i] = cmd}

\* C29: the pre-job commands of a scheduled containerized job start with the
\* creation of the scratch root; their copies are the copy of the parameter
\* file, second and only when structured parameters are used, and exactly
\* one copy host path -> staging path per declared input; the post-job
\* commands are exactly one copy staging path -> host path per declared
\* output; no input is copied back and no output is copied in.
C29_ContainerStagingCommands ==
    (ret.op = "run_python" /\ ret.container /\ ret.status = "scheduled")
        => LET pre == ret.script.pre_job_bash
               post == ret.script.post_job_bash
               inputs == Elements(ret.input_files)
               outputs == Elements(ret.output_files)
               scratch(name) ==
                    [root |-> "scratch", job |-> LocatorRepr(ret.job_name),
                     dir |-> "", name |-> name]
               nas(file) ==
                    [root |-> "nas", job |-> <<>>, dir |-> file.dir,
                     name |-> file.name]
               params_copy ==
                    [cmd |-> "cp",
                     src |-> [root |-> "workflow",
                              job |-> LocatorRepr(ret.job_name),
                              dir |-> "", name |-> "____params.params"],
                     dst |-> scratch("____params.params")]
               copy_in(file) ==
                    [cmd |-> "cp", src |-> nas(file),
                     dst |-> scratch(file.name)]
               copy_out(file) ==
                    [cmd |-> "cp", src |-> scratch(file.name),
                     dst |-> nas(file)]
           IN /\ Len(pre) >= 1
              /\ pre[1].cmd = "mkdir" /\ pre[1].dst = scratch("")
              /\ \A i \in 2..Len(pre) : pre[i].cmd \in {"cp", ""}
              /\ IF ret.payload.mode = "params"
                 THEN IndicesOf(pre, params_copy) = {2}
                 ELSE IndicesOf(pre, params_copy) = {}
              /\ \A file \in inputs :
                    Cardinality(IndicesOf(pre, copy_in(file))) = 1
              /\ \A i \in 2..Len(pre) :
                    pre[i].cmd = "cp"
                        => \/ pre[i] = params_copy
                           \/ \E file \in inputs : pre[i] = copy_in(file)
              /\ \A file \in outputs :
                    Cardinality(IndicesOf(post, copy_out(file))) = 1
              /\ \A i \in 1..Len(post) :
                    \E file \in outputs : post[i] = copy_out(file)
              /\ \A file \in inputs, i \in 1..Len(post) :
                    post[i].dst # nas(file)
              /\ \A file \in outputs, i \in 1..Len(pre) :
                    pre[i].src # nas(file)

\* A containerized job with a command line, one input and one output was
\* scheduled as the second job of the graph: mkdir, an empty line and one
\* copy in before the job, one copy out after it.
C29_Witness ==
    /\ ret.op = "run_python" /\ ret.container /\ ret.status = "scheduled"
    /\ ret.payload.mode = "args"
    /\ Len(ret.input_files) = 1 /\ Len(ret.output_files) = 1
    /\ Len(ret.script.pre_job_bash) = 3
    /\ Len(ret.script.post_job_bash) = 1
    /\ Cardinality(DOMAIN wb.jobs) = 2

\* C30: of two run_bash calls that follow one another and both return a
\* node, the second returns the node of the first, and adds no job, exactly
\* when it has the same locator and the same command list; lists that differ
\* in the order or in the repetition of commands give distinct nodes.
C30_BashJobDeduplication ==
    [][(/\ ret.op = "run_bash" /\ ret'.op = "run_bash"
        /\ ret.status \in {"scheduled", "duplicate"}
        /\ ret'.status \in {"scheduled", "duplicate"})
       => IF ret'.job_name = ret.job_name /\ ret'.command = ret.command
          THEN ret'.node = ret.node /\ wb'.jobs = wb.jobs
          ELSE ret'.node # ret.node
      ]_vars

\* The single-node pin of a request is one of the nodes of its exclusion
\* list.
PinIsExcluded(req) ==
    /\ ~IsNone(req.exclude_list)
    /\ ~IsNone(req.run_on_single_node)
    /\ \E i \in 1..Len(Split(Get(req.exclude_list), ",")) :
            Split(Get(req.exclude_list), ",")[i] = Get(req.run_on_single_node)

\* C31: apply_to_job raises the missing-partition error for a request with
\* no partition; else the walltime error for a job time above the
\* partition's maximum; else the node-constraint error for a pin that is in
\* the exclusion list; and whenever it raises, the job has neither the
\* execution profile nor a category.
C31_PreconditionOrder ==
    rrRet.op \in {"apply", "unify_apply"}
        => /\ IsNone(rrRet.req.partition)
                => rrRet.status = "MissingPartition"
           /\ (/\ ~IsNone(rrRet.req.partition)
               /\ Get(rrRet.req.job_time_in_minutes)
                    > Get(rrRet.req.partition).max_walltime)
                => rrRet.status = "WalltimeExceeded"
           /\ (/\ ~IsNone(rrRet.req.partition)
               /\ Get(rrRet.req.job_time_in_minutes)
                    <= Get(rrRet.req.partition).max_walltime
               /\ PinIsExcluded(rrRet.req))
                => rrRet.status = "InconsistentNodes"
           /\ rrRet.status # "ok"
                => rrRet.profiles = [glite |-> {}, category |-> {}]

\* A request whose job time is above the maximum and whose pin is excluded
\* was rejected for its job time.
C31_Witness ==
    /\ rrRet.op = "unify_apply"
    /\ rrRet.status = "WalltimeExceeded"
    /\ PinIsExcluded(rrRet.req)
    /\ rrRet.profiles = [glite |-> {}, category |-> {}]

\* C32: a containerized call whose input and output base names are pairwise
\* distinct and all different from ____params.params has not failed with the
\* duplicate-file-name error.
C32_NoSpuriousCollisions ==
    (/\ ret.op = "run_python" /\ ret.container
     /\ LET files == ret.input_files \o ret.output_files
        IN /\ \A i, j \in 1..Len(files) :
                files[i].name = files[j].name => i = j
           /\ \A i \in 1..Len(files) : files[i].name # "____params.params")
        => ret.status # "DuplicateFileName"

\* The script written by the last call, when it scheduled a job.
GeneratedScript ==
    IF ret.op = "run_bash"
    THEN BashScript(ret.job_name, ret.command)
    ELSE IF ret.container
    THEN DOCKER_SCRIPT(ret.job_name, ret.script.pre_job_bash,
                       ret.script.post_job_bash)
    ELSE CONDA_SCRIPT(ret.job_name)

\* The lines of a script whose command may fail.
MayFail(lines) ==
    {i \in 1..Len(lines) :
        lines[i].part \in {"cd", "command"} /\ lines[i].cmd # ""}

\* C33: in the script of every scheduled job the cd comes before the job's
\* commands, a bash job's commands are in the given order, the touch of the
\* checkpoint is the last line, and whichever commands fail, the touch is
\* run only if no command before it has failed.
C33_CheckpointOnlyOnSuccess ==
    (ret.op \in {"run_bash", "run_python"} /\ ret.status = "scheduled")
        => LET lines == GeneratedScript
               cmds == SelectSeq(lines, LAMBDA l : l.part = "command")
           IN /\ \A i, j \in 1..Len(lines) :
                    (lines[i].part = "cd" /\ lines[j].part = "command")
                        => i < j
              /\ ret.op = "run_bash"
                    => [i \in 1..Len(cmds) |-> cmds[i].arg] = ret.command
              /\ lines[Len(lines)].cmd = "touch"
              /\ \A failing \in SUBSET MayFail(lines) :
                    LineIsRun(lines, failing, Len(lines)) => failing = {}

\* C34: no two distinct jobs of the graph have a checkpoint file in common
\* among their outputs, two different jobs under one locator included.
C34_OwnCompletionArtifact ==
    \A i, j \in DOMAIN wb.jobs :
        i # j => wb.jobs[i].outputs \cap wb.jobs[j].outputs = {}

\* The staging commands, a newline between each two, and after them on a
\* line of its own the user's bash as one text, if there is any.
StagingThenUserBash(commands, user_bash) ==
    Join([i \in 1..Len(commands) |-> CommandText(commands[i])]
            \o (IF user_bash = <<>> THEN <<>> ELSE <<user_bash>>), "\n")

\* C35: when a containerized Python job is scheduled, the pre-job text handed
\* to the script writer is the staging commands followed by the caller's
\* pre-job string as it was given, and the post-job text likewise.
C35_UserBashUnaltered ==
    (ret.op = "run_python" /\ ret.container /\ ret.status = "scheduled")
        => /\ ret.pre_job =
                StagingThenUserBash(ret.script.pre_job_bash,
                                      ret.pre_docker_bash)
           /\ ret.post_job =
                StagingThenUserBash(ret.script.post_job_bash,
                                      ret.post_docker_bash)

\* The nodes, the edges and the dedup cache of a builder.
JobGraphAndCache(w) == <<w.jobs, w.edges, w._signature_to_job>>

\* C36: limit_jobs_for_category changes at most one entry of the category
\* limits and nothing else of the builder; a scheduling call leaves the
\* category limits as they are; write_dax_to_dir leaves the nodes, the edges
\* and the dedup cache as they are and emits the graph of the builder, so a
\* second write_dax_to_dir emits the graph the first one did.
C36_MutationConfined ==
    [][/\ ret'.op = "limit_jobs_for_category"
            => /\ \E c \in DOMAIN wb'._category_to_max_jobs :
                    /\ DOMAIN wb'._category_to_max_jobs =
                            DOMAIN wb._category_to_max_jobs \cup {c}
                    /\ \A k \in DOMAIN wb._category_to_max_jobs \ {c} :
                            wb'._category_to_max_jobs[k] =
                                wb._category_to_max_jobs[k]
               /\ wb' = [wb EXCEPT !._category_to_max_jobs =
                                        wb'._category_to_max_jobs]
       /\ ret'.op \in {"run_python", "run_bash"}
            => wb'._category_to_max_jobs = wb._category_to_max_jobs
       /\ ret'.op = "write_dax_to_dir"
            => /\ JobGraphAndCache(wb') = JobGraphAndCache(wb)
               /\ wb'._category_to_max_jobs = wb._category_to_max_jobs
               /\ fs'.dax = Some([jobs |-> wb.jobs, edges |-> wb.edges])
               /\ ret.op = "write_dax_to_dir" => fs'.dax = fs.dax]_vars

\* Witness for C36: the graph of one job at least has been written while
\* both categories have a limit.
C36_Witness ==
    /\ ret.op = "write_dax_to_dir"
    /\ wb.jobs # <<>>
    /\ fs.dax = Some([jobs |-> wb.jobs, edges |-> wb.edges])
    /\ Cardinality(DOMAIN wb._category_to_max_jobs) = 2

\* The replicas registered for a logical file name.
ReplicasOf(w, lfn) == {r \in w.replicas : r.lfn = lfn}

\* C37: the File cached for a name stays the same object through every
\* step.  create_file returns the cached File; for a cached name it changes
\* nothing, for a new name it registers the given path if asked to and
\* nothing otherwise, so no name has more than one replica.  get_file
\* changes nothing, returns the cached File of a cached name and fails for
\* any other name.
C37_FileCache ==
    [][/\ \A lfn \in wb._lfn_to_file :
            /\ lfn \in wb'._lfn_to_file
            /\ wb'.files[lfn] = wb.files[lfn]
            /\ ReplicasOf(wb', lfn) = ReplicasOf(wb, lfn)
       /\ \A lfn \in wb'._lfn_to_file : Cardinality(ReplicasOf(wb', lfn)) <= 1
       /\ ret'.op = "create_file"
            => LET lfn == ret'.logical_file_name
               IN /\ ret'.file = Some(wb'.files[lfn])
                  /\ lfn \in wb._lfn_to_file => wb' = wb
                  /\ lfn \notin wb._lfn_to_file
                        => ReplicasOf(wb', lfn) =
                            IF ret'.add_to_catalog
                            THEN {Replica(lfn, ret'.physical_file_path)}
                            ELSE {}
       /\ ret'.op = "get_file"
            => LET lfn == ret'.logical_file_name
               IN /\ wb' = wb
                  /\ IF lfn \in wb._lfn_to_file
                     THEN /\ ret'.status = "ok"
                          /\ ret'.file = Some(wb.files[lfn])
                     ELSE /\ ret'.status = "RuntimeError"
                          /\ ret'.file = None]_vars

\* Witness for C37: create_file was asked to register a path for a name
\* that was cached before another name was; it has returned the older File
\* and the path is not registered.
C37_Witness ==
    /\ ret.op = "create_file"
    /\ ret.add_to_catalog
    /\ Replica(ret.logical_file_name, ret.physical_file_path)
            \notin wb.replicas
    /\ Get(ret.file).serial < Cardinality(wb._lfn_to_file)

\* A finite graph has no directed cycle when every non-empty set of its
\* nodes has a node with no edge into the set.
Acyclic(nodes, edges) ==
    \A S \in SUBSET nodes \ {{}} :
        \E n \in S : \A m \in S : <<n, m>> \notin edges

\* C38: every edge of the job graph joins two jobs of the graph, no job
\* depends on itself and the graph has no directed cycle.
C38_JobGraphIsAcyclic ==
    /\ \A e \in wb.edges :
            /\ e[1] \in DOMAIN wb.jobs
            /\ e[2] \in DOMAIN wb.jobs
            /\ e[1] # e[2]
    /\ Acyclic(DOMAIN wb.jobs, wb.edges)

\* Witness for C38: a job was scheduled that depends on an earlier one.
C38_Witness ==
    /\ ret.op = "run_python"
    /\ ret.status = "scheduled"
    /\ Len(ret.depends_on) > 0
    /\ \E e \in wb.edges : e[2] = ret.node.job

\* C39: a composition of no transforms fails; any other one calls its
\* transforms in the listed order, the first on the input and each later
\* one on the store the one before it gave, returns the store of the last,
\* and gives the requested output locator to the last call and none to
\* every earlier call.
C39_ComposedTransform ==
    kvRet.op = "compose"
        => /\ kvRet.status = "RuntimeError" <=> kvRet.transforms = <<>>
           /\ kvRet.status = "ok"
                => LET n == Len(kvRet.transforms)
                       out(i) ==
                            ApplyTransform(kvRet.calls[i].transform,
                                           kvRet.calls[i].input_zip,
                                           kvRet.calls[i].output_locator)
                   IN /\ Len(kvRet.calls) = n
                      /\ \A i \in 1..n :
                            /\ kvRet.calls[i].transform = kvRet.transforms[i]
                            /\ kvRet.calls[i].input_zip =
                                    IF i = 1 THEN kvRet.input_zip
                                    ELSE out(i - 1)
                            /\ kvRet.calls[i].output_locator =
                                    IF i = n THEN kvRet.output_locator
                                    ELSE None
                      /\ kvRet.value = Some(out(n))

====
